---------------------------- MODULE Spec2Model ----------------------------
(***************************************************************************)
(* A model of the worked examples of geocompy's chapters 03 (spatial       *)
(* operations), 05 (raster-vector interactions) and 07 (read/write).       *)
(* Each section of a chapter is a short script; the model gives every      *)
(* script its own variables, one action per statement of the script and    *)
(* its own specification.  The library calls of the scripts (geopandas,    *)
(* shapely, numpy, scipy.ndimage, rasterio) are modelled by what they      *)
(* compute on small exact data: integer coordinates, exact rationals       *)
(* <<numerator, denominator>> where the scripts divide or hold floats, and *)
(* the empty tuple for numpy's not-a-number.                               *)
(***************************************************************************)
EXTENDS Integers, Sequences, FiniteSets, TLC

VARIABLES
    \* 03 sec-joining-incongruent-layers
    nz, grid, nz_grid, nz_total, grid_total, ipc,
    \* 03 sec-topological-relations: a geometry pair x, y
    gx, gy, rel_xy, rel_yx,
    \* 03 sec-topological-relations: points against poly, many-to-one
    points, poly, out_intersects, out_within, out_touches, out_disjoint,
    out_distance, tpc,
    \* 03 sec-spatial-ras: the arrays read from elev.tif and grain.tif
    elev, grain,
    \* 03 sec-focal-operations
    elev_min, grain_mode, fpc,
    \* 03 sec-local-operations: elev + elev, elev**2, elev.astype(int)**2
    elev_plus, elev_sq, elev_int_sq, lpc,
    \* 03 sec-local-operations: recl, and a second pass over recl
    recl_table, recl, recl_first, recl_pass, recl_row,
    \* 07 sec-data-output-raster: np.array(...).reshape(2,2).astype(np.int8)
    r_list, r_int8, apc,
    \* 05 sec-raster-to-points, sec-distance-to-nearest-geometry
    r05, new_transform, ids, pol, image, vpc,
    \* 03 sec-spatial-joining: random_points.sjoin(world, how='left')
    random_points, world, random_joined, jpc,
    \* 03 sec-spatial-joining: the non-overlapping join of cycle_hire
    cycle_hire, cycle_hire_osm, cycle_hire_buffers, cpc,
    \* 03 sec-topological-relations, sec-distance-relations: many-to-many
    mx_first, mx_second, mx_intersects, mx_distance, mpc,
    \* 03 sec-zonal-operations
    z_cells, z, zpc,
    \* 07 sec-data-output-raster: an int raster with a No Data flag
    r07, mask07, r_mean, r_nanmean, r_masked, r_masked_mean, ndpc,
    \* 05 sec-rasterization: the point layer, the resolution, the three rasters of it, the polygon layer and its raster
    ch_layer, ch_res, ch_raster1, ch_raster2, ch_raster3, california, california_raster2, bpc,
    \* 05 sec-raster-to-polygons: the grain raster, its transform, the list of shapes and the polygon layer
    src_grain, grain_transform, pol_grain, result_grain, gpc,
    \* 05 sec-raster-to-points: the elev raster, its transform, the array of IDs, its shapes and the point layer
    r_elev, elev_transform, ids_elev, pol_elev, result_elev, ppc,
    \* 05 sec-distance-to-nearest-geometry: the aggregated raster, its transform, the coastline, the IDs, their shapes, the centroids, the (point, distance) pairs and the raster of distances
    r_nz, nz_transform, coastline, ids_nz, pol_nz, pnt, distances, image_nz, dpc,
    \* 03 sec-spatial-aggr grid: the bounds, the columns and rows of the grid and the list of rectangles
    grid_bounds, grid_cols, grid_rows, polygons, cpc2,
    \* 03 sec-spatial-subsetting-raster: the generator src_elev.sample returns, the list made of it, the number of calls
    sample_gen, sample_values, sample_calls, spc,
    \* 03 boolean masks: the values of elev.tif on file, the mask, the arrays in memory and the arrays the names elev, masked_elev and elev2 refer to
    src_elev03, mask03, heap03, elev_ref, masked_elev_ref, elev2_ref, kpc,
    \* 03 unary_union: a layer of points, a layer of polygons and the two selections made with the union of one against the other
    nz_height, canterbury_southland, sel_height, world_random, upc

interpVars == <<nz, grid, nz_grid, nz_total, grid_total, ipc>>

relVars == <<gx, gy, rel_xy, rel_yx>>

topoVars ==
    <<points, poly, out_intersects, out_within, out_touches, out_disjoint,
      out_distance, tpc>>

rasterVars == <<elev, grain>>

focalVars == <<elev_min, grain_mode, fpc>>

localVars == <<elev_plus, elev_sq, elev_int_sq, lpc>>

reclVars == <<recl_table, recl, recl_first, recl_pass, recl_row>>

astypeVars == <<r_list, r_int8, apc>>

vectorVars == <<r05, new_transform, ids, pol, image, vpc>>

joinVars == <<random_points, world, random_joined, jpc>>

cycleVars == <<cycle_hire, cycle_hire_osm, cycle_hire_buffers, cpc>>

matrixVars == <<mx_first, mx_second, mx_intersects, mx_distance, mpc>>

zonalVars == <<z_cells, z, zpc>>

nodataVars == <<r07, mask07, r_mean, r_nanmean, r_masked, r_masked_mean, ndpc>>

burnVars == <<ch_layer, ch_res, ch_raster1, ch_raster2, ch_raster3, california, california_raster2, bpc>>

grainVars == <<src_grain, grain_transform, pol_grain, result_grain, gpc>>

pointsVars == <<r_elev, elev_transform, ids_elev, pol_elev, result_elev, ppc>>

distVars == <<r_nz, nz_transform, coastline, ids_nz, pol_nz, pnt, distances, image_nz, dpc>>

cellsVars == <<grid_bounds, grid_cols, grid_rows, polygons, cpc2>>

sampleVars == <<sample_gen, sample_values, sample_calls, spc>>

maskVars == <<src_elev03, mask03, heap03, elev_ref, masked_elev_ref, elev2_ref, kpc>>

unionVars == <<nz_height, canterbury_southland, sel_height, world_random, upc>>

vars ==
    <<interpVars, relVars, topoVars, rasterVars, focalVars, localVars,
      reclVars, astypeVars, vectorVars,
      joinVars,
      cycleVars,
      matrixVars,
      zonalVars,
      nodataVars,
      burnVars,
      grainVars,
      pointsVars,
      distVars,
      cellsVars,
      sampleVars,
      maskVars,
      unionVars>>

\* what a script leaves alone: the variables of the other scripts
notInterp ==
    <<relVars, topoVars, rasterVars, focalVars, localVars, reclVars,
      astypeVars, vectorVars,
      joinVars,
      cycleVars,
      matrixVars,
      zonalVars,
      nodataVars,
      burnVars,
      grainVars,
      pointsVars,
      distVars,
      cellsVars,
      sampleVars,
      maskVars,
      unionVars>>

notRel ==
    <<interpVars, topoVars, rasterVars, focalVars, localVars, reclVars,
      astypeVars, vectorVars,
      joinVars,
      cycleVars,
      matrixVars,
      zonalVars,
      nodataVars,
      burnVars,
      grainVars,
      pointsVars,
      distVars,
      cellsVars,
      sampleVars,
      maskVars,
      unionVars>>

notTopo ==
    <<interpVars, relVars, rasterVars, focalVars, localVars, reclVars,
      astypeVars, vectorVars,
      joinVars,
      cycleVars,
      matrixVars,
      zonalVars,
      nodataVars,
      burnVars,
      grainVars,
      pointsVars,
      distVars,
      cellsVars,
      sampleVars,
      maskVars,
      unionVars>>

\* the scripts of sec-spatial-ras share elev and grain
notFocal ==
    <<interpVars, relVars, topoVars, localVars, reclVars, astypeVars,
      vectorVars,
      joinVars,
      cycleVars,
      matrixVars,
      zonalVars,
      nodataVars,
      burnVars,
      grainVars,
      pointsVars,
      distVars,
      cellsVars,
      sampleVars,
      maskVars,
      unionVars>>

notLocal ==
    <<interpVars, relVars, topoVars, focalVars, reclVars, astypeVars,
      vectorVars,
      joinVars,
      cycleVars,
      matrixVars,
      zonalVars,
      nodataVars,
      burnVars,
      grainVars,
      pointsVars,
      distVars,
      cellsVars,
      sampleVars,
      maskVars,
      unionVars>>

notRecl ==
    <<interpVars, relVars, topoVars, focalVars, localVars, astypeVars,
      vectorVars,
      joinVars,
      cycleVars,
      matrixVars,
      zonalVars,
      nodataVars,
      burnVars,
      grainVars,
      pointsVars,
      distVars,
      cellsVars,
      sampleVars,
      maskVars,
      unionVars>>

notAstype ==
    <<interpVars, relVars, topoVars, rasterVars, focalVars, localVars,
      reclVars, vectorVars,
      joinVars,
      cycleVars,
      matrixVars,
      zonalVars,
      nodataVars,
      burnVars,
      grainVars,
      pointsVars,
      distVars,
      cellsVars,
      sampleVars,
      maskVars,
      unionVars>>

notVector ==
    <<interpVars, relVars, topoVars, rasterVars, focalVars, localVars,
      reclVars, astypeVars,
      joinVars,
      cycleVars,
      matrixVars,
      zonalVars,
      nodataVars,
      burnVars,
      grainVars,
      pointsVars,
      distVars,
      cellsVars,
      sampleVars,
      maskVars,
      unionVars>>

notJoin ==
    <<interpVars, relVars, topoVars, rasterVars, focalVars, localVars,
      reclVars, astypeVars, vectorVars,
      cycleVars,
      matrixVars,
      zonalVars,
      nodataVars,
      burnVars,
      grainVars,
      pointsVars,
      distVars,
      cellsVars,
      sampleVars,
      maskVars,
      unionVars>>

notCycle ==
    <<interpVars,
      relVars,
      topoVars,
      rasterVars,
      focalVars,
      localVars,
      reclVars,
      astypeVars,
      vectorVars,
      joinVars,
      matrixVars,
      zonalVars,
      nodataVars,
      burnVars,
      grainVars,
      pointsVars,
      distVars,
      cellsVars,
      sampleVars,
      maskVars,
      unionVars>>

notMatrix ==
    <<interpVars,
      relVars,
      topoVars,
      rasterVars,
      focalVars,
      localVars,
      reclVars,
      astypeVars,
      vectorVars,
      joinVars,
      cycleVars,
      zonalVars,
      nodataVars,
      burnVars,
      grainVars,
      pointsVars,
      distVars,
      cellsVars,
      sampleVars,
      maskVars,
      unionVars>>

notZonal ==
    <<interpVars,
      relVars,
      topoVars,
      focalVars,
      localVars,
      reclVars,
      astypeVars,
      vectorVars,
      joinVars,
      cycleVars,
      matrixVars,
      nodataVars,
      burnVars,
      grainVars,
      pointsVars,
      distVars,
      cellsVars,
      sampleVars,
      maskVars,
      unionVars>>

notNodata ==
    <<interpVars,
      relVars,
      topoVars,
      rasterVars,
      focalVars,
      localVars,
      reclVars,
      astypeVars,
      vectorVars,
      joinVars,
      cycleVars,
      matrixVars,
      zonalVars,
      burnVars,
      grainVars,
      pointsVars,
      distVars,
      cellsVars,
      sampleVars,
      maskVars,
      unionVars>>

notBurn ==
    <<interpVars,
      relVars,
      topoVars,
      rasterVars,
      focalVars,
      localVars,
      reclVars,
      astypeVars,
      vectorVars,
      joinVars,
      cycleVars,
      matrixVars,
      zonalVars,
      nodataVars,
      grainVars,
      pointsVars,
      distVars,
      cellsVars,
      sampleVars,
      maskVars,
      unionVars>>

notGrain ==
    <<interpVars,
      relVars,
      topoVars,
      rasterVars,
      focalVars,
      localVars,
      reclVars,
      astypeVars,
      vectorVars,
      joinVars,
      cycleVars,
      matrixVars,
      zonalVars,
      nodataVars,
      burnVars,
      pointsVars,
      distVars,
      cellsVars,
      sampleVars,
      maskVars,
      unionVars>>

notPoints ==
    <<interpVars,
      relVars,
      topoVars,
      rasterVars,
      focalVars,
      localVars,
      reclVars,
      astypeVars,
      vectorVars,
      joinVars,
      cycleVars,
      matrixVars,
      zonalVars,
      nodataVars,
      burnVars,
      grainVars,
      distVars,
      cellsVars,
      sampleVars,
      maskVars,
      unionVars>>

notDist ==
    <<interpVars,
      relVars,
      topoVars,
      rasterVars,
      focalVars,
      localVars,
      reclVars,
      astypeVars,
      vectorVars,
      joinVars,
      cycleVars,
      matrixVars,
      zonalVars,
      nodataVars,
      burnVars,
      grainVars,
      pointsVars,
      cellsVars,
      sampleVars,
      maskVars,
      unionVars>>

notCells ==
    <<interpVars,
      relVars,
      topoVars,
      rasterVars,
      focalVars,
      localVars,
      reclVars,
      astypeVars,
      vectorVars,
      joinVars,
      cycleVars,
      matrixVars,
      zonalVars,
      nodataVars,
      burnVars,
      grainVars,
      pointsVars,
      distVars,
      sampleVars,
      maskVars,
      unionVars>>

notSample ==
    <<interpVars,
      relVars,
      topoVars,
      rasterVars,
      focalVars,
      localVars,
      reclVars,
      astypeVars,
      vectorVars,
      joinVars,
      cycleVars,
      matrixVars,
      zonalVars,
      nodataVars,
      burnVars,
      grainVars,
      pointsVars,
      distVars,
      cellsVars,
      maskVars,
      unionVars>>

notMask ==
    <<interpVars,
      relVars,
      topoVars,
      rasterVars,
      focalVars,
      localVars,
      reclVars,
      astypeVars,
      vectorVars,
      joinVars,
      cycleVars,
      matrixVars,
      zonalVars,
      nodataVars,
      burnVars,
      grainVars,
      pointsVars,
      distVars,
      cellsVars,
      sampleVars,
      unionVars>>

notUnion ==
    <<interpVars,
      relVars,
      topoVars,
      rasterVars,
      focalVars,
      localVars,
      reclVars,
      astypeVars,
      vectorVars,
      joinVars,
      cycleVars,
      matrixVars,
      zonalVars,
      nodataVars,
      burnVars,
      grainVars,
      pointsVars,
      distVars,
      cellsVars,
      sampleVars,
      maskVars>>

-----------------------------------------------------------------------------
(* Generic helpers *)

\* numpy's not-a-number; a float is a rational <<n, d>>
NaN == <<>>

Abs(x) == IF x < 0 THEN -x ELSE x

SetMin(S) == CHOOSE x \in S : \A y \in S : x <= y

SetMax(S) == CHOOSE x \in S : \A y \in S : x >= y

RECURSIVE Gcd(_, _)
Gcd(a, b) == IF b = 0 THEN a ELSE Gcd(b, a % b)

\* exact rationals <<n, d>> with d > 0, in lowest terms
Frac(n, d) ==
    LET s == IF d < 0 THEN -1 ELSE 1
        g == Gcd(Abs(n), Abs(d))
    IN  <<(s * n) \div g, (s * d) \div g>>

RatAdd(p, q) == Frac(p[1] * q[2] + q[1] * p[2], p[2] * q[2])

RatMul(p, q) == Frac(p[1] * q[1], p[2] * q[2])

RatOfInt(n) == <<n, 1>>

RatLess(p, q) == p[1] * q[2] < q[1] * p[2]

RECURSIVE RatSumSeq(_)
RatSumSeq(s) ==
    IF s = <<>> THEN RatOfInt(0) ELSE RatAdd(Head(s), RatSumSeq(Tail(s)))

RECURSIVE IntSumSeq(_)
IntSumSeq(s) == IF s = <<>> THEN 0 ELSE Head(s) + IntSumSeq(Tail(s))

\* the elements of a finite set of integers in increasing order
RECURSIVE SortedSeq(_)
SortedSeq(S) ==
    IF S = {} THEN <<>> ELSE <<SetMin(S)>> \o SortedSeq(S \ {SetMin(S)})

Range(s) == {s[i] : i \in DOMAIN s}

RECURSIVE Flatten(_)
Flatten(ss) == IF ss = <<>> THEN <<>> ELSE Head(ss) \o Flatten(Tail(ss))

-----------------------------------------------------------------------------
(* A script that is not run: its variables stay at these values *)

InterpIdle ==
    /\ nz = <<>>
    /\ grid = <<>>
    /\ nz_grid = <<>>
    /\ nz_total = NaN
    /\ grid_total = NaN
    /\ ipc = "idle"

\* a result not computed yet
NotEvaluated == [evaluated |-> FALSE]

RelIdle ==
    /\ gx = NotEvaluated
    /\ gy = NotEvaluated
    /\ rel_xy = NotEvaluated
    /\ rel_yx = NotEvaluated

TopoIdle ==
    /\ points = <<>>
    /\ poly = NotEvaluated
    /\ out_intersects = <<>>
    /\ out_within = <<>>
    /\ out_touches = <<>>
    /\ out_disjoint = <<>>
    /\ out_distance = <<>>
    /\ tpc = "idle"

RasterIdle ==
    /\ elev = NotEvaluated
    /\ grain = NotEvaluated

FocalIdle ==
    /\ elev_min = NotEvaluated
    /\ grain_mode = NotEvaluated
    /\ fpc = "idle"

LocalIdle ==
    /\ elev_plus = NotEvaluated
    /\ elev_sq = NotEvaluated
    /\ elev_int_sq = NotEvaluated
    /\ lpc = "idle"

ReclIdle ==
    /\ recl_table = <<>>
    /\ recl = NotEvaluated
    /\ recl_first = NotEvaluated
    /\ recl_pass = 0
    /\ recl_row = 0

AstypeIdle ==
    /\ r_list = <<>>
    /\ r_int8 = NotEvaluated
    /\ apc = "idle"

VectorIdle ==
    /\ r05 = NotEvaluated
    /\ new_transform = NotEvaluated
    /\ ids = NotEvaluated
    /\ pol = <<>>
    /\ image = NotEvaluated
    /\ vpc = "idle"

JoinIdle ==
    /\ random_points = <<>>
    /\ world = <<>>
    /\ random_joined = <<>>
    /\ jpc = "idle"

CycleIdle ==
    /\ cycle_hire = <<>>
    /\ cycle_hire_osm = <<>>
    /\ cycle_hire_buffers = <<>>
    /\ cpc = "idle"

MatrixIdle ==
    /\ mx_first = <<>>
    /\ mx_second = <<>>
    /\ mx_intersects = <<>>
    /\ mx_distance = <<>>
    /\ mpc = "idle"

ZonalIdle ==
    /\ z_cells = <<>>
    /\ z = <<>>
    /\ zpc = "idle"

NodataIdle ==
    /\ r07 = NotEvaluated
    /\ mask07 = NotEvaluated
    /\ r_mean = NotEvaluated
    /\ r_nanmean = NotEvaluated
    /\ r_masked = NotEvaluated
    /\ r_masked_mean = NotEvaluated
    /\ ndpc = "idle"

BurnIdle ==
    /\ ch_layer = NotEvaluated
    /\ ch_res = NotEvaluated
    /\ ch_raster1 = NotEvaluated
    /\ ch_raster2 = NotEvaluated
    /\ ch_raster3 = NotEvaluated
    /\ california = NotEvaluated
    /\ california_raster2 = NotEvaluated
    /\ bpc = NotEvaluated

GrainIdle ==
    /\ src_grain = NotEvaluated
    /\ grain_transform = NotEvaluated
    /\ pol_grain = NotEvaluated
    /\ result_grain = NotEvaluated
    /\ gpc = NotEvaluated

PointsIdle ==
    /\ r_elev = NotEvaluated
    /\ elev_transform = NotEvaluated
    /\ ids_elev = NotEvaluated
    /\ pol_elev = NotEvaluated
    /\ result_elev = NotEvaluated
    /\ ppc = NotEvaluated

DistIdle ==
    /\ r_nz = NotEvaluated
    /\ nz_transform = NotEvaluated
    /\ coastline = NotEvaluated
    /\ ids_nz = NotEvaluated
    /\ pol_nz = NotEvaluated
    /\ pnt = NotEvaluated
    /\ distances = NotEvaluated
    /\ image_nz = NotEvaluated
    /\ dpc = NotEvaluated

CellsIdle ==
    /\ grid_bounds = NotEvaluated
    /\ grid_cols = NotEvaluated
    /\ grid_rows = NotEvaluated
    /\ polygons = NotEvaluated
    /\ cpc2 = NotEvaluated

SampleIdle ==
    /\ sample_gen = NotEvaluated
    /\ sample_values = NotEvaluated
    /\ sample_calls = 0
    /\ spc = NotEvaluated

MaskIdle ==
    /\ src_elev03 = NotEvaluated
    /\ mask03 = NotEvaluated
    /\ heap03 = <<>>
    /\ elev_ref = 0
    /\ masked_elev_ref = 0
    /\ elev2_ref = 0
    /\ kpc = NotEvaluated

UnionIdle ==
    /\ nz_height = NotEvaluated
    /\ canterbury_southland = NotEvaluated
    /\ sel_height = NotEvaluated
    /\ world_random = NotEvaluated
    /\ upc = NotEvaluated

\* every script idle but those named
IdleBut(scripts) ==
    /\ IF "interp" \in scripts THEN TRUE ELSE InterpIdle
    /\ IF "rel" \in scripts THEN TRUE ELSE RelIdle
    /\ IF "topo" \in scripts THEN TRUE ELSE TopoIdle
    /\ IF "raster" \in scripts THEN TRUE ELSE RasterIdle
    /\ IF "focal" \in scripts THEN TRUE ELSE FocalIdle
    /\ IF "local" \in scripts THEN TRUE ELSE LocalIdle
    /\ IF "recl" \in scripts THEN TRUE ELSE ReclIdle
    /\ IF "astype" \in scripts THEN TRUE ELSE AstypeIdle
    /\ IF "vector" \in scripts THEN TRUE ELSE VectorIdle
    /\ IF "join" \in scripts THEN TRUE ELSE JoinIdle
    /\ IF "cycle" \in scripts THEN TRUE ELSE CycleIdle
    /\ IF "matrix" \in scripts THEN TRUE ELSE MatrixIdle
    /\ IF "zonal" \in scripts THEN TRUE ELSE ZonalIdle
    /\ IF "nodata" \in scripts THEN TRUE ELSE NodataIdle
    /\ IF "burn" \in scripts THEN TRUE ELSE BurnIdle
    /\ IF "grain" \in scripts THEN TRUE ELSE GrainIdle
    /\ IF "points" \in scripts THEN TRUE ELSE PointsIdle
    /\ IF "dist" \in scripts THEN TRUE ELSE DistIdle
    /\ IF "cells" \in scripts THEN TRUE ELSE CellsIdle
    /\ IF "sample" \in scripts THEN TRUE ELSE SampleIdle
    /\ IF "mask" \in scripts THEN TRUE ELSE MaskIdle
    /\ IF "union" \in scripts THEN TRUE ELSE UnionIdle

-----------------------------------------------------------------------------
(***************************************************************************)
(* 03 sec-joining-incongruent-layers: area-weighted interpolation of       *)
(* 'Population' from the nz polygons to a regular grid.                    *)
(*                                                                         *)
(* The plane is a strip of unit atoms [k, k+1), k \in 0..NAtoms-1.  A      *)
(* polygon layer feature is a non-empty set of atoms (a region may have    *)
(* several parts) and its area is the number of atoms.  A grid rectangle   *)
(* is the interval [x, x+Res].                                             *)
(***************************************************************************)

NAtoms == 3

Res == 2

MaxSources == 2

PopValues == {50, 100}

Atoms == 0 .. (NAtoms - 1)

SourceFeatures ==
    [geometry : (SUBSET Atoms) \ {{}}, Population : PopValues]

SourceLayers ==
    UNION {[1 .. n -> SourceFeatures] : n \in 1 .. MaxSources}

Area(g) == Cardinality(g)

\* nz.total_bounds: <<xmin, xmax>> of the union of the geometries
TotalBounds(layer) ==
    LET U == UNION {layer[i].geometry : i \in DOMAIN layer}
    IN  <<SetMin(U), SetMax(U) + 1>>

\* a rectangle [x, x+Res] and the closed box [lo, hi] share a point
RectIntersectsBox(x, box) == x <= box[2] /\ x + Res >= box[1]

RectAtoms(x) == x .. (x + Res - 1)

\* list(range(floor(xmin), ceil(xmax + res), res))
GridCols(bounds) ==
    LET n == ((bounds[2] + Res - bounds[1]) + Res - 1) \div Res
    IN  [i \in 1 .. n |-> bounds[1] + (i - 1) * Res]

\* the grid: one rectangle per column, those meeting the box of nz kept,
\* 'id' the index of the rectangle before the selection (0-based)
MakeGrid(layer) ==
    LET bounds == TotalBounds(layer)
        cols == GridCols(bounds)
        all == [i \in DOMAIN cols |->
                   [id |-> i - 1, x |-> cols[i], geometry |-> RectAtoms(cols[i])]]
    IN  SelectSeq(all, LAMBDA c : RectIntersectsBox(c.x, bounds))

\* nz['area'] = nz.area
WithArea(layer) ==
    [i \in DOMAIN layer |->
        [geometry |-> layer[i].geometry,
         Population |-> layer[i].Population,
         area |-> Area(layer[i].geometry)]]

\* nz.overlay(grid): one fragment per pair with a common area, in the
\* order of nz and then of grid, with the columns id, area, Population
Overlay(layer, g) ==
    LET row(i) ==
            LET hit == SelectSeq(g,
                         LAMBDA c : layer[i].geometry \cap c.geometry # {})
            IN  [j \in DOMAIN hit |->
                    [id |-> hit[j].id,
                     area |-> layer[i].area,
                     Population |-> layer[i].Population,
                     geometry |-> layer[i].geometry \cap hit[j].geometry]]
    IN  Flatten([i \in DOMAIN layer |-> row(i)])

\* nz_grid['area_sub'] = nz_grid.area
WithAreaSub(frags) ==
    [k \in DOMAIN frags |->
        [id |-> frags[k].id, area |-> frags[k].area,
         Population |-> frags[k].Population,
         area_sub |-> Area(frags[k].geometry)]]

AreaPropMutant(f) == Frac(f.area_sub, Res)

\* area_sub / area
AreaProp(f) == Frac(f.area_sub, f.area)

\* nz_grid['area_prop'] = ...; nz_grid['population'] = Population * area_prop
WithPopulation(frags) ==
    [k \in DOMAIN frags |->
        [id |-> frags[k].id,
         area_prop |-> AreaProp(frags[k]),
         population |-> RatMul(RatOfInt(frags[k].Population), AreaProp(frags[k]))]]

\* nz_grid.groupby('id')['population'].sum().reset_index()
GroupSum(frags) ==
    LET keys == SortedSeq({frags[k].id : k \in DOMAIN frags})
    IN  [n \in DOMAIN keys |->
            [id |-> keys[n],
             population |->
                 RatSumSeq([k \in 1 .. Len(SelectSeq(frags, LAMBDA f : f.id = keys[n]))
                              |-> SelectSeq(frags, LAMBDA f : f.id = keys[n])[k].population])]]

MergeLeftMutant(g, sums) ==
    [i \in DOMAIN g |->
        [id |-> g[i].id, geometry |-> g[i].geometry,
         population |->
             RatSumSeq([k \in DOMAIN SelectSeq(sums, LAMBDA s : s.id = g[i].id) |->
                          SelectSeq(sums, LAMBDA s : s.id = g[i].id)[k].population])]]

\* pd.merge(grid, nz_grid[['id', 'population']], on='id', how='left')
MergeLeft(g, sums) ==
    LET row(c) ==
            LET m == SelectSeq(sums, LAMBDA s : s.id = c.id)
            IN  IF m = <<>>
                THEN <<[id |-> c.id, geometry |-> c.geometry, population |-> NaN]>>
                ELSE [j \in DOMAIN m |->
                         [id |-> c.id, geometry |-> c.geometry,
                          population |-> m[j].population]]
    IN  Flatten([i \in DOMAIN g |-> row(g[i])])

\* grid['population'].sum(): NaN is skipped
PopulationSum(g) ==
    LET have == SelectSeq(g, LAMBDA c : c.population # NaN)
    IN  RatSumSeq([k \in DOMAIN have |-> have[k].population])

InitInterp ==
    /\ nz \in SourceLayers
    /\ grid = <<>>
    /\ nz_grid = <<>>
    /\ nz_total = NaN
    /\ grid_total = NaN
    /\ ipc = "grid"
    /\ IdleBut({"interp"})

GridCreate ==
    /\ ipc = "grid"
    /\ grid' = MakeGrid(nz)
    /\ ipc' = "area"
    /\ UNCHANGED <<nz, nz_grid, nz_total, grid_total, notInterp>>

NzArea ==
    /\ ipc = "area"
    /\ nz' = WithArea(nz)
    /\ ipc' = "overlay"
    /\ UNCHANGED <<grid, nz_grid, nz_total, grid_total, notInterp>>

NzOverlay ==
    /\ ipc = "overlay"
    /\ nz_grid' = Overlay(nz, grid)
    /\ ipc' = "area_sub"
    /\ UNCHANGED <<nz, grid, nz_total, grid_total, notInterp>>

NzGridAreaSub ==
    /\ ipc = "area_sub"
    /\ nz_grid' = WithAreaSub(nz_grid)
    /\ ipc' = "population"
    /\ UNCHANGED <<nz, grid, nz_total, grid_total, notInterp>>

NzGridPopulation ==
    /\ ipc = "population"
    /\ nz_grid' = WithPopulation(nz_grid)
    /\ ipc' = "groupby"
    /\ UNCHANGED <<nz, grid, nz_total, grid_total, notInterp>>

NzGridGroupSum ==
    /\ ipc = "groupby"
    /\ nz_grid' = GroupSum(nz_grid)
    /\ ipc' = "merge"
    /\ UNCHANGED <<nz, grid, nz_total, grid_total, notInterp>>

GridMerge ==
    /\ ipc = "merge"
    /\ grid' = MergeLeft(grid, nz_grid)
    /\ ipc' = "sum"
    /\ UNCHANGED <<nz, nz_grid, nz_total, grid_total, notInterp>>

CompareSums ==
    /\ ipc = "sum"
    /\ nz_total' = RatOfInt(IntSumSeq([i \in DOMAIN nz |-> nz[i].Population]))
    /\ grid_total' = PopulationSum(grid)
    /\ ipc' = "done"
    /\ UNCHANGED <<nz, grid, nz_grid, notInterp>>

NextInterp ==
    \/ GridCreate
    \/ NzArea
    \/ NzOverlay
    \/ NzGridAreaSub
    \/ NzGridPopulation
    \/ NzGridGroupSum
    \/ GridMerge
    \/ CompareSums

SpecInterp == InitInterp /\ [][NextInterp]_vars

\* C1: area-weighted extensive interpolation conserves the total: once the
\* script has run, the sum of 'population' over the grid equals the sum of
\* 'Population' over nz (the grid covers nz by construction).
C1_Conservation ==
    ipc = "done" => grid_total = nz_total

\* a finished run in which a source was split over two grid rectangles in
\* unequal parts and the totals agree
C1_Witness ==
    /\ ipc = "done"
    /\ grid_total = nz_total
    /\ \E i, j \in DOMAIN grid :
          /\ i # j
          /\ grid[i].population # NaN
          /\ grid[j].population # NaN
          /\ grid[i].population[2] # 1

\* the fragments of the overlay with their populations, as they were
\* before the aggregation replaced them
Fragments == WithPopulation(WithAreaSub(Overlay(nz, MakeGrid(nz))))

FragmentsOf(id) == SelectSeq(Fragments, LAMBDA f : f.id = id)

\* C11: after the per-id sums are merged back onto the grid (how='left'),
\* every grid rectangle is kept exactly once and in order; a rectangle with
\* no fragment has population NaN, never zero, and a rectangle with
\* fragments has the sum of their populations.
C11_MergeLeftNoData ==
    ipc \in {"sum", "done"} =>
        /\ Len(grid) = Len(MakeGrid(nz))
        /\ \A i \in DOMAIN grid :
              /\ grid[i].id = MakeGrid(nz)[i].id
              /\ IF FragmentsOf(grid[i].id) = <<>>
                 THEN grid[i].population = NaN /\ grid[i].population # RatOfInt(0)
                 ELSE grid[i].population =
                          RatSumSeq([k \in DOMAIN FragmentsOf(grid[i].id) |->
                                       FragmentsOf(grid[i].id)[k].population])

\* a merged grid with a rectangle that no source overlaps and a rectangle
\* that holds two fragments
C11_Witness ==
    /\ ipc \in {"sum", "done"}
    /\ \E i \in DOMAIN grid :
          FragmentsOf(grid[i].id) = <<>> /\ grid[i].population = NaN
    /\ \E i \in DOMAIN grid :
          Len(FragmentsOf(grid[i].id)) >= 2 /\ grid[i].population # NaN

-----------------------------------------------------------------------------
(***************************************************************************)
(* 03 sec-topological-relations and sec-distance-relations: the shapely    *)
(* geometries and their binary predicates.                                 *)
(*                                                                         *)
(* Coordinates are in tenths, so that the points and polygons of the       *)
(* chapter have integer coordinates.  A puntal geometry (Point,            *)
(* MultiPoint) is its set of coordinates, a Polygon its closed exterior    *)
(* ring.  The predicates are those of the DE-9IM matrix of the pair, whose *)
(* entries are the dimensions -1 (empty, 'F'), 0, 1, 2 of the              *)
(* intersections of interior, boundary and exterior.                       *)
(***************************************************************************)

LatMax == 10

Coords == 0 .. LatMax

Point(x, y) == [type |-> "Point", pts |-> {<<x, y>>}]

MultiPoint(S) == [type |-> "MultiPoint", pts |-> S]

Polygon(ring) == [type |-> "Polygon", ring |-> ring]

\* points = gpd.GeoSeries([Point(0.2,0.1), Point(0.7,0.2), Point(0.4,0.8)])
points03 == <<Point(2, 1), Point(7, 2), Point(4, 8)>>

\* poly = gpd.GeoSeries([Polygon([(0,0), (0,1), (1,1), (1,0.5), (0,0)])])
poly03 == Polygon(<<<<0, 0>>, <<0, 10>>, <<10, 10>>, <<10, 5>>, <<0, 0>>>>)

\* poly2: the same polygon and the triangle below it
poly2 ==
    <<poly03, Polygon(<<<<0, 0>>, <<10, 5>>, <<10, 0>>, <<0, 0>>>>)>>

IsPuntal(g) == g.type \in {"Point", "MultiPoint"}

Dim(g) == IF IsPuntal(g) THEN 0 ELSE 2

Cross(o, a, b) ==
    (a[1] - o[1]) * (b[2] - o[2]) - (a[2] - o[2]) * (b[1] - o[1])

Min2(a, b) == IF a <= b THEN a ELSE b

Max2(a, b) == IF a >= b THEN a ELSE b

OnSegment(p, a, b) ==
    /\ Cross(a, b, p) = 0
    /\ Min2(a[1], b[1]) <= p[1] /\ p[1] <= Max2(a[1], b[1])
    /\ Min2(a[2], b[2]) <= p[2] /\ p[2] <= Max2(a[2], b[2])

Edges(ring) == {<<ring[i], ring[i + 1]>> : i \in 1 .. (Len(ring) - 1)}

\* the edge crosses the horizontal ray from p to the right
RayCrosses(p, e) ==
    LET a == e[1]
        b == e[2]
    IN  \/ a[2] <= p[2] /\ p[2] < b[2] /\ Cross(a, b, p) > 0
        \/ b[2] <= p[2] /\ p[2] < a[2] /\ Cross(a, b, p) < 0

LocateMutant(p, ring) ==
    IF Cardinality({e \in Edges(ring) : RayCrosses(p, e)}) % 2 = 1
    THEN "interior" ELSE "exterior"

\* where a coordinate lies with respect to a polygon
Locate(p, ring) ==
    IF \E e \in Edges(ring) : OnSegment(p, e[1], e[2])
    THEN "boundary"
    ELSE IF Cardinality({e \in Edges(ring) : RayCrosses(p, e)}) % 2 = 1
         THEN "interior" ELSE "exterior"

F == -1

If0(c) == IF c THEN 0 ELSE F

\* DE-9IM of two puntal geometries: II IB IE / BI BB BE / EI EB EE
RelatePP(A, B) ==
    <<If0(A \cap B # {}), F, If0(A \ B # {}),
      F, F, F,
      If0(B \ A # {}), F, 2>>

\* DE-9IM of a puntal geometry and a polygon
RelatePA(A, ring) ==
    <<If0(\E p \in A : Locate(p, ring) = "interior"),
      If0(\E p \in A : Locate(p, ring) = "boundary"),
      If0(\E p \in A : Locate(p, ring) = "exterior"),
      F, F, F,
      2, 1, 2>>

RelateAPMutant(ring, B) ==
    <<If0(\E p \in B : Locate(p, ring) # "exterior"), F, 2,
      F, F, 1,
      If0(\E p \in B : Locate(p, ring) = "exterior"), F, 2>>

\* DE-9IM of a polygon and a puntal geometry
RelateAP(ring, B) ==
    <<If0(\E p \in B : Locate(p, ring) = "interior"), F, 2,
      If0(\E p \in B : Locate(p, ring) = "boundary"), F, 1,
      If0(\E p \in B : Locate(p, ring) = "exterior"), F, 2>>

\* x.relate(y) for the pairs of the chapter (not polygon with polygon)
Relate(a, b) ==
    IF IsPuntal(a) /\ IsPuntal(b) THEN RelatePP(a.pts, b.pts)
    ELSE IF IsPuntal(a) THEN RelatePA(a.pts, b.ring)
    ELSE RelateAP(a.ring, b.pts)

\* x.relate_pattern(y, pattern): 'T' any dimension, 'F' empty, '*' anything
Matches(m, pattern) ==
    \A i \in 1 .. 9 :
        \/ pattern[i] = "*"
        \/ pattern[i] = "T" /\ m[i] >= 0
        \/ pattern[i] = "F" /\ m[i] = F

Disjoint(a, b) ==
    Matches(Relate(a, b), <<"F", "F", "*", "F", "F", "*", "*", "*", "*">>)

Intersects(a, b) == ~Disjoint(a, b)

Touches(a, b) ==
    LET m == Relate(a, b)
    IN  /\ ~(Dim(a) = 0 /\ Dim(b) = 0)
        /\ \/ Matches(m, <<"F", "T", "*", "*", "*", "*", "*", "*", "*">>)
           \/ Matches(m, <<"F", "*", "*", "T", "*", "*", "*", "*", "*">>)
           \/ Matches(m, <<"F", "*", "*", "*", "T", "*", "*", "*", "*">>)

Crosses(a, b) ==
    LET m == Relate(a, b)
    IN  \/ /\ Dim(a) < Dim(b)
           /\ Matches(m, <<"T", "*", "T", "*", "*", "*", "*", "*", "*">>)
        \/ /\ Dim(a) > Dim(b)
           /\ Matches(m, <<"T", "*", "*", "*", "*", "*", "T", "*", "*">>)

Within(a, b) ==
    Matches(Relate(a, b), <<"T", "*", "F", "*", "*", "F", "*", "*", "*">>)

Contains(a, b) ==
    Matches(Relate(a, b), <<"T", "*", "*", "*", "*", "*", "F", "F", "*">>)

Overlaps(a, b) ==
    /\ Dim(a) = Dim(b)
    /\ Matches(Relate(a, b), <<"T", "*", "T", "*", "*", "*", "T", "*", "*">>)

Equals(a, b) ==
    /\ Dim(a) = Dim(b)
    /\ Matches(Relate(a, b), <<"T", "*", "F", "*", "*", "F", "F", "F", "*">>)

RatMinSet(S) == CHOOSE q \in S : \A r \in S : ~RatLess(r, q)

\* squared distance of a coordinate and a segment
PointSegDistSq(p, a, b) ==
    LET dx == b[1] - a[1]
        dy == b[2] - a[2]
        L == dx * dx + dy * dy
        t == (p[1] - a[1]) * dx + (p[2] - a[2]) * dy
    IN  IF L = 0 \/ t <= 0
        THEN RatOfInt((p[1] - a[1]) * (p[1] - a[1]) + (p[2] - a[2]) * (p[2] - a[2]))
        ELSE IF t >= L
        THEN RatOfInt((p[1] - b[1]) * (p[1] - b[1]) + (p[2] - b[2]) * (p[2] - b[2]))
        ELSE Frac(Cross(a, b, p) * Cross(a, b, p), L)

PointPolyDistSqMutant(p, ring) ==
    RatMinSet({PointSegDistSq(p, e[1], e[2]) : e \in Edges(ring)})

\* squared distance of a coordinate and a polygon: 0 inside or on the ring
PointPolyDistSq(p, ring) ==
    IF Locate(p, ring) # "exterior"
    THEN RatOfInt(0)
    ELSE RatMinSet({PointSegDistSq(p, e[1], e[2]) : e \in Edges(ring)})

\* x.distance(y), squared: the least distance of a point of x and one of y
DistanceSq(a, b) ==
    IF IsPuntal(a) /\ IsPuntal(b)
    THEN RatMinSet({RatOfInt((p[1] - q[1]) * (p[1] - q[1])
                             + (p[2] - q[2]) * (p[2] - q[2])) :
                       p \in a.pts, q \in b.pts})
    ELSE IF IsPuntal(a)
    THEN RatMinSet({PointPolyDistSq(p, b.ring) : p \in a.pts})
    ELSE RatMinSet({PointPolyDistSq(q, a.ring) : q \in b.pts})

\* every relation of x.relation(y) at once
Relations(a, b) ==
    [intersects |-> Intersects(a, b),
     disjoint |-> Disjoint(a, b),
     touches |-> Touches(a, b),
     crosses |-> Crosses(a, b),
     within |-> Within(a, b),
     contains |-> Contains(a, b),
     overlaps |-> Overlaps(a, b),
     equals |-> Equals(a, b),
     distance_sq |-> DistanceSq(a, b)]

LatticePoints == {Point(x, y) : x \in Coords, y \in Coords}

\* some two-point MultiPoints around the polygons of the chapter
MultiPoints ==
    LET S == {<<2, 1>>, <<7, 2>>, <<4, 8>>, <<10, 5>>}
    IN  {MultiPoint({p, q}) : p, q \in S} \ {MultiPoint({p}) : p \in S}

Geoms == LatticePoints \cup MultiPoints \cup Range(poly2)

Evaluated(r) == "intersects" \in DOMAIN r

InitRel ==
    /\ gx \in Geoms
    /\ gy \in Geoms
    /\ IsPuntal(gx) \/ IsPuntal(gy)
    /\ rel_xy = NotEvaluated
    /\ rel_yx = NotEvaluated
    /\ IdleBut({"rel"})

\* x.relation(y)
RelationXY ==
    /\ ~Evaluated(rel_xy)
    /\ rel_xy' = Relations(gx, gy)
    /\ UNCHANGED <<gx, gy, rel_yx, notRel>>

\* y.relation(x)
RelationYX ==
    /\ ~Evaluated(rel_yx)
    /\ rel_yx' = Relations(gy, gx)
    /\ UNCHANGED <<gx, gy, rel_xy, notRel>>

NextRel ==
    \/ RelationXY
    \/ RelationYX

SpecRel == InitRel /\ [][NextRel]_vars

\* C3: intersects, equals, touches, crosses and overlaps give the same
\* answer for x.relation(y) and y.relation(x), and x.within(y) is
\* y.contains(x).
C3_Symmetry ==
    (Evaluated(rel_xy) /\ Evaluated(rel_yx)) =>
        /\ rel_xy.intersects = rel_yx.intersects
        /\ rel_xy.within = rel_yx.contains
        /\ rel_xy.contains = rel_yx.within
        /\ rel_xy.equals = rel_yx.equals
        /\ rel_xy.touches = rel_yx.touches
        /\ rel_xy.crosses = rel_yx.crosses
        /\ rel_xy.overlaps = rel_yx.overlaps

\* a point within a polygon, seen from both sides: within one way,
\* contains the other, and neither the other way round
C3_Witness ==
    /\ Evaluated(rel_xy) /\ Evaluated(rel_yx)
    /\ gx.type = "Point" /\ gy.type = "Polygon"
    /\ rel_xy.within /\ ~rel_xy.contains
    /\ rel_yx.contains /\ ~rel_yx.within
    /\ rel_xy.intersects /\ rel_yx.intersects

\* C4: the distance of a pair is never negative, and it is 0 exactly when
\* the pair intersects.
C4_DistanceZeroIffIntersects ==
    Evaluated(rel_xy) =>
        /\ ~RatLess(rel_xy.distance_sq, RatOfInt(0))
        /\ (rel_xy.distance_sq = RatOfInt(0)) <=> rel_xy.intersects

\* a point on the ring of a polygon: distance 0 and intersecting
C4_Witness ==
    /\ Evaluated(rel_xy)
    /\ gx.type = "Point" /\ gy.type = "Polygon"
    /\ rel_xy.touches
    /\ rel_xy.distance_sq = RatOfInt(0)

-----------------------------------------------------------------------------
(***************************************************************************)
(* 03 sec-topological-relations: the "many-to-one" mode, each geometry of  *)
(* the GeoSeries points against the single geometry poly.iloc[0].          *)
(***************************************************************************)

MaxPoints == 2

SamplePoints ==
    {Point(x, y) : x \in {0, 2, 4, 7, 10}, y \in {1, 2, 8}}

PointSeries ==
    {points03} \cup UNION {[1 .. n -> SamplePoints] : n \in 1 .. MaxPoints}

\* GeoSeries.relation(geometry): one result per geometry, in order
ManyToOne(relation, series, g) ==
    [i \in DOMAIN series |->
        CASE relation = "intersects" -> Intersects(series[i], g)
          [] relation = "within" -> Within(series[i], g)
          [] relation = "touches" -> Touches(series[i], g)
          [] relation = "disjoint" -> Disjoint(series[i], g)
          [] relation = "distance_sq" -> DistanceSq(series[i], g)]

\* distance < 0.2, in tenths and squared
WithinDistance(dsq) == RatLess(dsq, RatOfInt(2 * 2))

InitTopo ==
    /\ points \in PointSeries
    /\ poly \in Range(poly2)
    /\ out_intersects = <<>>
    /\ out_within = <<>>
    /\ out_touches = <<>>
    /\ out_disjoint = <<>>
    /\ out_distance = <<>>
    /\ tpc = "intersects"
    /\ IdleBut({"topo"})

\* points.intersects(poly.iloc[0])
PointsIntersects ==
    /\ tpc = "intersects"
    /\ out_intersects' = ManyToOne("intersects", points, poly)
    /\ tpc' = "within"
    /\ UNCHANGED <<points, poly, out_within, out_touches, out_disjoint,
                   out_distance, notTopo>>

\* points.within(poly.iloc[0])
PointsWithin ==
    /\ tpc = "within"
    /\ out_within' = ManyToOne("within", points, poly)
    /\ tpc' = "touches"
    /\ UNCHANGED <<points, poly, out_intersects, out_touches, out_disjoint,
                   out_distance, notTopo>>

\* points.touches(poly.iloc[0])
PointsTouches ==
    /\ tpc = "touches"
    /\ out_touches' = ManyToOne("touches", points, poly)
    /\ tpc' = "disjoint"
    /\ UNCHANGED <<points, poly, out_intersects, out_within, out_disjoint,
                   out_distance, notTopo>>

\* points.disjoint(poly.iloc[0])
PointsDisjoint ==
    /\ tpc = "disjoint"
    /\ out_disjoint' = ManyToOne("disjoint", points, poly)
    /\ tpc' = "distance"
    /\ UNCHANGED <<points, poly, out_intersects, out_within, out_touches,
                   out_distance, notTopo>>

\* points.distance(poly.iloc[0]) < 0.2
PointsDistance ==
    /\ tpc = "distance"
    /\ out_distance' =
           [i \in DOMAIN points |->
               WithinDistance(ManyToOne("distance_sq", points, poly)[i])]
    /\ tpc' = "done"
    /\ UNCHANGED <<points, poly, out_intersects, out_within, out_touches,
                   out_disjoint, notTopo>>

NextTopo ==
    \/ PointsIntersects
    \/ PointsWithin
    \/ PointsTouches
    \/ PointsDisjoint
    \/ PointsDistance

SpecTopo == InitTopo /\ [][NextTopo]_vars

\* C5: for the three points and the polygon of the chapter, intersects is
\* [True, False, True], within [False, False, True], touches
\* [True, False, False]; and disjoint is always the negation of intersects,
\* element by element.
C5_ManyToOneScenario ==
    tpc = "done" =>
        /\ out_disjoint = [i \in DOMAIN points |-> ~out_intersects[i]]
        /\ (points = points03 /\ poly = poly03) =>
              /\ out_intersects = <<TRUE, FALSE, TRUE>>
              /\ out_within = <<FALSE, FALSE, TRUE>>
              /\ out_touches = <<TRUE, FALSE, FALSE>>

\* the script has run on the points and the polygon of the chapter
C5_Witness ==
    /\ tpc = "done"
    /\ points = points03
    /\ poly = poly03
    /\ out_intersects = <<TRUE, FALSE, TRUE>>

-----------------------------------------------------------------------------
(***************************************************************************)
(* 03 sec-spatial-ras: numpy arrays.  An array is its dtype and its rows;  *)
(* an integer array holds integers, a float array rationals or NaN.        *)
(***************************************************************************)

Array(dtype, data) == [dtype |-> dtype, data |-> data]

NRows(a) == Len(a.data)

NCols(a) == Len(a.data[1])

CellsOf(a) == (1 .. NRows(a)) \X (1 .. NCols(a))

At(a, rc) == a.data[rc[1]][rc[2]]

\* a.astype(float)
AsTypeFloat(a) ==
    Array("float64",
          [i \in 1 .. NRows(a) |-> [j \in 1 .. NCols(a) |->
              RatOfInt(a.data[i][j])]])

\* the h x w array 1, 2, ... row by row, as elev.tif is
Arange(h, w) ==
    Array("uint8", [r \in 1 .. h |-> [c \in 1 .. w |-> (r - 1) * w + c]])

\* np.isnan: an integer is never NaN
IsNaN(dtype, v) ==
    IF dtype \in {"uint8", "int8", "int32", "int64"} THEN FALSE ELSE v = NaN

AllArrays(dtype, h, w, values) ==
    {Array(dtype, d) : d \in [1 .. h -> [1 .. w -> values]]}

-----------------------------------------------------------------------------
(***************************************************************************)
(* 03 sec-focal-operations: scipy.ndimage filters of size 3 with the       *)
(* default mode 'reflect', then the outermost rows and columns set to NaN. *)
(***************************************************************************)

FilterSize == 3

FocalCols == 3

\* mode='reflect' (d c b a | a b c d | d c b a), 1-based
Reflect(i, n) ==
    LET m == (i - 1) % (2 * n)
    IN  IF m < n THEN m + 1 ELSE 2 * n - m

OffsetsMutant(size) == 0 .. (size - 1)

\* the offsets of a window of odd size about its centre
Offsets(size) == (-(size \div 2)) .. (size \div 2)

\* the window of a cell: offset pair |-> value
Window(a, r, c, size) ==
    [d \in Offsets(size) \X Offsets(size) |->
        a.data[Reflect(r + d[1], NRows(a))][Reflect(c + d[2], NCols(a))]]

\* scipy.ndimage.minimum_filter(a, size)
MinimumFilter(a, size) ==
    Array(a.dtype,
          [r \in 1 .. NRows(a) |-> [c \in 1 .. NCols(a) |->
              SetMin({Window(a, r, c, size)[d] : d \in DOMAIN Window(a, r, c, size)})]])

\* scipy.stats.mode(x.flatten())[0]: the most common value, the smallest
\* of them when several are
Mode(win) ==
    LET count(v) == Cardinality({d \in DOMAIN win : win[d] = v})
        vals == {win[d] : d \in DOMAIN win}
    IN  SetMin({v \in vals : \A u \in vals : count(u) <= count(v)})

\* scipy.ndimage.generic_filter(a, lambda x: scipy.stats.mode(...)[0], size)
GenericFilterMode(a, size) ==
    Array(a.dtype,
          [r \in 1 .. NRows(a) |-> [c \in 1 .. NCols(a) |->
              Mode(Window(a, r, c, size))]])

\* a[:, [0, -1]] = np.nan; a[[0, -1], :] = np.nan
SetEdgesNaN(a) ==
    Array(a.dtype,
          [r \in 1 .. NRows(a) |-> [c \in 1 .. NCols(a) |->
              IF c \in {1, NCols(a)} \/ r \in {1, NRows(a)}
              THEN NaN ELSE a.data[r][c]]])

\* elevations: every array of up to 3 rows over two values, and the arrays
\* 1, 2, ... of up to 5 rows and columns
FocalElevs ==
    UNION {AllArrays("uint8", h, w, {1, 2}) :
              h \in 1 .. FilterSize, w \in 1 .. FocalCols}
    \cup {Arange(h, w) : h \in 1 .. FilterSize + 2, w \in 1 .. FilterSize + 2}

\* grain classes 0, 1, 2: the 3 x 3 arrays whose last row holds each class
FocalGrains ==
    {Array("uint8", <<a, b, <<0, 1, 2>>>>) :
        a \in [1 .. FilterSize -> {0, 1, 2}], b \in [1 .. FilterSize -> {0, 1, 2}]}

InitFocal ==
    /\ \/ /\ elev \in FocalElevs
          /\ grain = Array("uint8", [i \in 1 .. NRows(elev) |->
                                         [j \in 1 .. NCols(elev) |-> 0]])
       \/ /\ grain \in FocalGrains
          /\ elev = Arange(FilterSize, FilterSize)
    /\ elev_min = NotEvaluated
    /\ grain_mode = NotEvaluated
    /\ fpc = "minimum_filter"
    /\ IdleBut({"raster", "focal"})

\* elev_min = scipy.ndimage.minimum_filter(elev, size=3)
ElevMinFilter ==
    /\ fpc = "minimum_filter"
    /\ elev_min' = MinimumFilter(elev, FilterSize)
    /\ fpc' = "elev_min_edges"
    /\ UNCHANGED <<elev, grain, grain_mode, notFocal>>

\* elev_min = elev_min.astype(float); the edges set to np.nan
ElevMinEdges ==
    /\ fpc = "elev_min_edges"
    /\ elev_min' = SetEdgesNaN(AsTypeFloat(elev_min))
    /\ fpc' = "generic_filter"
    /\ UNCHANGED <<elev, grain, grain_mode, notFocal>>

\* grain_mode = scipy.ndimage.generic_filter(grain, mode, size=3)
GrainModeFilter ==
    /\ fpc = "generic_filter"
    /\ grain_mode' = GenericFilterMode(grain, FilterSize)
    /\ fpc' = "grain_mode_edges"
    /\ UNCHANGED <<elev, grain, elev_min, notFocal>>

\* grain_mode = grain_mode.astype(float); the edges set to np.nan
GrainModeEdges ==
    /\ fpc = "grain_mode_edges"
    /\ grain_mode' = SetEdgesNaN(AsTypeFloat(grain_mode))
    /\ fpc' = "done"
    /\ UNCHANGED <<elev, grain, elev_min, notFocal>>

NextFocal ==
    \/ ElevMinFilter
    \/ ElevMinEdges
    \/ GrainModeFilter
    \/ GrainModeEdges

SpecFocal == InitFocal /\ [][NextFocal]_vars

\* the cells of the size x size window centred at (r, c), when it lies
\* inside the array
FullWindow(a, r, c, size) ==
    {<<r + dr, c + dc>> : dr \in Offsets(size), dc \in Offsets(size)}

HasFullWindow(a, r, c, size) ==
    FullWindow(a, r, c, size) \subseteq CellsOf(a)

\* C6: after the filter and the edge assignment, a cell whose 3 x 3 window
\* lies inside the grid holds the minimum (elev_min) or the mode
\* (grain_mode) of exactly the 9 cells of its window, any other cell is
\* NaN; for [[1,2,3],[4,5,6],[7,8,9]] the centre is 1 and the 8 border
\* cells are NaN.
C6_FocalShrink ==
    fpc = "done" =>
        /\ \A rc \in CellsOf(elev) :
              IF HasFullWindow(elev, rc[1], rc[2], FilterSize)
              THEN LET w == {At(elev, q) : q \in FullWindow(elev, rc[1], rc[2], FilterSize)}
                   IN  \E m \in w : /\ \A v \in w : m <= v
                                    /\ At(elev_min, rc) = RatOfInt(m)
              ELSE At(elev_min, rc) = NaN
        /\ \A rc \in CellsOf(grain) :
              IF HasFullWindow(grain, rc[1], rc[2], FilterSize)
              THEN LET W == FullWindow(grain, rc[1], rc[2], FilterSize)
                       n(v) == Cardinality({q \in W : At(grain, q) = v})
                   IN  \E q \in W :
                          /\ At(grain_mode, rc) = RatOfInt(At(grain, q))
                          /\ \A p \in W :
                                \/ n(At(grain, p)) < n(At(grain, q))
                                \/ /\ n(At(grain, p)) = n(At(grain, q))
                                   /\ At(grain, q) <= At(grain, p)
              ELSE At(grain_mode, rc) = NaN
        /\ elev = Arange(3, 3) =>
              /\ At(elev_min, <<2, 2>>) = RatOfInt(1)
              /\ \A rc \in CellsOf(elev) \ {<<2, 2>>} : At(elev_min, rc) = NaN

\* the literal case has run: centre 1, corner NaN
C6_Witness ==
    /\ fpc = "done"
    /\ elev.data = <<<<1, 2, 3>>, <<4, 5, 6>>, <<7, 8, 9>>>>
    /\ At(elev_min, <<2, 2>>) = RatOfInt(1)
    /\ At(elev_min, <<1, 1>>) = NaN

-----------------------------------------------------------------------------
(***************************************************************************)
(* 03 sec-local-operations: element-wise arithmetic.  numpy computes in    *)
(* the dtype of the operands: an 8-bit result is the exact result modulo   *)
(* 2^8.  int64 results are exact for every value the model reaches.        *)
(***************************************************************************)

MaxCells == 2

\* the value an integer dtype stores for the exact result x
Wrap(dtype, x) ==
    CASE dtype = "uint8" -> x % 256
      [] dtype = "int8" -> ((x + 128) % 256) - 128
      [] OTHER -> x

\* the value stored when out-of-range results are clipped to the range
Saturate(dtype, x) ==
    CASE dtype = "uint8" -> IF x < 0 THEN 0 ELSE IF x > 255 THEN 255 ELSE x
      [] dtype = "int8" -> IF x < -128 THEN -128 ELSE IF x > 127 THEN 127 ELSE x
      [] OTHER -> x

\* a + b
Add(a, b) ==
    Array(a.dtype,
          [i \in 1 .. NRows(a) |-> [j \in 1 .. NCols(a) |->
              Wrap(a.dtype, a.data[i][j] + b.data[i][j])]])

\* a**2: the operator ** leaves the dtype as it is
Squared(a) ==
    Array(a.dtype,
          [i \in 1 .. NRows(a) |-> [j \in 1 .. NCols(a) |->
              Wrap(a.dtype, a.data[i][j] * a.data[i][j])]])

AsTypeIntMutant(a) == a

\* a.astype(int): int is int64
AsTypeInt(a) ==
    Array("int64",
          [i \in 1 .. NRows(a) |-> [j \in 1 .. NCols(a) |->
              a.data[i][j]]])

Uint8Sample == {0, 1, 15, 16, 17, 36, 128, 255}

Int8Sample == {-128, -1, 0, 1, 11, 12, 16, 127}

LocalElevs ==
    UNION {AllArrays("uint8", 1, n, Uint8Sample)
           \cup AllArrays("int8", 1, n, Int8Sample) : n \in 1 .. MaxCells}

InitLocal ==
    /\ elev \in LocalElevs
    /\ grain = NotEvaluated
    /\ elev_plus = NotEvaluated
    /\ elev_sq = NotEvaluated
    /\ elev_int_sq = NotEvaluated
    /\ lpc = "plus"
    /\ IdleBut({"raster", "local"})

\* elev + elev
ElevPlusElev ==
    /\ lpc = "plus"
    /\ elev_plus' = Add(elev, elev)
    /\ lpc' = "squared"
    /\ UNCHANGED <<elev, grain, elev_sq, elev_int_sq, notLocal>>

\* elev**2
ElevSquared ==
    /\ lpc = "squared"
    /\ elev_sq' = Squared(elev)
    /\ lpc' = "astype_squared"
    /\ UNCHANGED <<elev, grain, elev_plus, elev_int_sq, notLocal>>

\* elev.astype(int)**2
ElevAsTypeIntSquared ==
    /\ lpc = "astype_squared"
    /\ elev_int_sq' = Squared(AsTypeInt(elev))
    /\ lpc' = "done"
    /\ UNCHANGED <<elev, grain, elev_plus, elev_sq, notLocal>>

NextLocal ==
    \/ ElevPlusElev
    \/ ElevSquared
    \/ ElevAsTypeIntSquared

SpecLocal == InitLocal /\ [][NextLocal]_vars

\* C7 as stated: the default operation elev**2 promotes, so that every cell
\* v of an 8-bit grid yields exactly v * v in a wider type (16 yields 256),
\* never a value wrapped modulo 2^8.
C7_DefaultPromotes ==
    lpc = "done" =>
        /\ elev_sq.dtype # elev.dtype
        /\ \A rc \in CellsOf(elev) : At(elev_sq, rc) = At(elev, rc) * At(elev, rc)

\* C7 amended: only the explicit elev.astype(int)**2 promotes and yields
\* exactly v * v in every cell (16 yields 256); the default elev**2 keeps
\* the 8-bit type and its cells are congruent to v * v modulo 2^8 within
\* the range of that type (16 yields 0).
C7_ExplicitPromotion ==
    lpc = "done" =>
        /\ elev_int_sq.dtype = "int64"
        /\ elev_sq.dtype = elev.dtype
        /\ \A rc \in CellsOf(elev) :
              LET v == At(elev, rc)
                  lo == IF elev.dtype = "uint8" THEN 0 ELSE -128
              IN  /\ At(elev_int_sq, rc) = v * v
                  /\ At(elev_sq, rc) \in lo .. lo + 255
                  /\ (At(elev_sq, rc) - v * v) % 256 = 0
                  /\ v = 16 => At(elev_int_sq, rc) = 256 /\ At(elev_sq, rc) = 0

\* a cell of value 16 has been squared both ways
C7_Witness ==
    /\ lpc = "done"
    /\ elev.dtype = "uint8"
    /\ \E rc \in CellsOf(elev) :
          /\ At(elev, rc) = 16
          /\ At(elev_sq, rc) = 0
          /\ At(elev_int_sq, rc) = 256

-----------------------------------------------------------------------------
(***************************************************************************)
(* 07 sec-data-output-raster: a list of Python integers made an int64      *)
(* array, reshaped to 2 x 2 and narrowed with .astype(np.int8).            *)
(***************************************************************************)

\* np.array(list).reshape(h, w)
Reshape(list, h, w) ==
    Array("int64", [i \in 1 .. h |-> [j \in 1 .. w |-> list[(i - 1) * w + j]]])

AsTypeMutant(a, dtype) ==
    Array(dtype,
          [i \in 1 .. NRows(a) |-> [j \in 1 .. NCols(a) |->
              Saturate(dtype, a.data[i][j])]])

\* a.astype(dtype), casting='unsafe' as numpy's default is: never fails
AsType(a, dtype) ==
    Array(dtype,
          [i \in 1 .. NRows(a) |-> [j \in 1 .. NCols(a) |->
              Wrap(dtype, a.data[i][j])]])

Representable(dtype, v) == Saturate(dtype, v) = v

Int64Sample == {-129, -128, 4, 127, 128, 256, 289}

Lists == {<<1, 2, 3, 4>>} \cup [1 .. 4 -> Int64Sample]

InitAstype ==
    /\ r_list \in Lists
    /\ r_int8 = NotEvaluated
    /\ apc = "astype"
    /\ IdleBut({"astype"})

\* r = np.array([1,2,3,4]).reshape(2,2).astype(np.int8)
ArrayAsTypeInt8 ==
    /\ apc = "astype"
    /\ r_int8' = AsType(Reshape(r_list, 2, 2), "int8")
    /\ apc' = "done"
    /\ UNCHANGED <<r_list, notAstype>>

NextAstype == ArrayAsTypeInt8

SpecAstype == InitAstype /\ [][NextAstype]_vars

-----------------------------------------------------------------------------
(***************************************************************************)
(* 03 sec-local-operations: reclassification.  recl starts as a copy of    *)
(* elev; one assignment per row (lo, hi, new) of the table then sets the   *)
(* cells whose value in elev lies in the interval of the row.  A second    *)
(* pass reclassifies the result of the first with the same table.          *)
(***************************************************************************)

MaxV == 3

TableRow(lo, hi, new) == [lo |-> lo, hi |-> hi, new |-> new]

\* the chapter's table: 0-12 to 1, 12-24 to 2, 24-36 to 3
table03 == <<TableRow(0, 12, 1), TableRow(12, 24, 2), TableRow(24, 36, 3)>>

InIntervalMutant(v, rw) == (v >= rw.lo) /\ (v < rw.hi)

\* (elev > lo) & (elev <= hi)
InInterval(v, rw) == (v > rw.lo) /\ (v <= rw.hi)

ApplyRowMutant(out, src, rw) ==
    Array(out.dtype,
          [i \in 1 .. NRows(out) |-> [j \in 1 .. NCols(out) |->
              IF InInterval(out.data[i][j], rw) THEN rw.new ELSE out.data[i][j]]])

\* recl[(elev > lo) & (elev <= hi)] = new
ApplyRow(out, src, rw) ==
    Array(out.dtype,
          [i \in 1 .. NRows(out) |-> [j \in 1 .. NCols(out) |->
              IF InInterval(src.data[i][j], rw) THEN rw.new ELSE out.data[i][j]]])

TableRows == {TableRow(lo, hi, new) : lo \in 0 .. MaxV, hi \in 0 .. MaxV, new \in 0 .. MaxV}

\* tables of one or two rows with lo < hi
SmallTables ==
    UNION {[1 .. n -> {rw \in TableRows : rw.lo < rw.hi}] : n \in {1, 2}}

Sample03 == {0, 1, 2, 3, 12, 13, 24, 25, 36, 37}

ReclElevs(values) == UNION {AllArrays("uint8", 1, n, values) : n \in {1, 2}}

InitRecl ==
    /\ \/ /\ recl_table = table03
          /\ elev \in ReclElevs(Sample03)
       \/ /\ recl_table \in SmallTables
          /\ elev \in ReclElevs(0 .. MaxV)
    /\ grain = NotEvaluated
    /\ recl = NotEvaluated
    /\ recl_first = NotEvaluated
    /\ recl_pass = 1
    /\ recl_row = 0
    /\ IdleBut({"raster", "recl"})

\* the array a pass reclassifies: elev, then the result of the first pass
Source == IF recl_pass = 1 THEN elev ELSE recl_first

PassDone == recl_row = Len(recl_table) + 1

\* recl = elev.copy()
ReclCopy ==
    /\ recl_pass \in {1, 2}
    /\ recl_row = 0
    /\ recl' = Source
    /\ recl_row' = 1
    /\ UNCHANGED <<elev, grain, recl_table, recl_first, recl_pass, notRecl>>

\* recl[(elev > lo) & (elev <= hi)] = new, for the next row of the table
ReclAssign ==
    /\ recl_row \in 1 .. Len(recl_table)
    /\ recl' = ApplyRow(recl, Source, recl_table[recl_row])
    /\ recl_row' = recl_row + 1
    /\ UNCHANGED <<elev, grain, recl_table, recl_first, recl_pass, notRecl>>

\* the same statements once more, on the result
ReclAgain ==
    /\ recl_pass = 1
    /\ PassDone
    /\ recl_first' = recl
    /\ recl_pass' = 2
    /\ recl_row' = 0
    /\ UNCHANGED <<elev, grain, recl_table, recl, notRecl>>

NextRecl ==
    \/ ReclCopy
    \/ ReclAssign
    \/ ReclAgain

SpecRecl == InitRecl /\ [][NextRecl]_vars

\* the rows whose interval (lo, hi] holds v
RowsHolding(v) ==
    {k \in DOMAIN recl_table : recl_table[k].lo < v /\ v <= recl_table[k].hi}

\* v is left in place by the table: no interval (lo, hi] holds it, or the
\* last row holding it has v as its new value
LeftInPlace(v) ==
    RowsHolding(v) # {} => recl_table[SetMax(RowsHolding(v))].new = v

Targets == {recl_table[k].new : k \in DOMAIN recl_table}

\* no two rows share more than an end point
NonOverlapping ==
    \A k \in DOMAIN recl_table, m \in DOMAIN recl_table :
        k # m => \/ recl_table[k].hi <= recl_table[m].lo
                 \/ recl_table[m].hi <= recl_table[k].lo

\* C9 as stated: reclassifying twice gives what reclassifying once gives,
\* whenever all values of the first result are targets of the table.
C9_IdempotentOnTargets ==
    (/\ recl_pass = 2
     /\ PassDone
     /\ \A rc \in CellsOf(recl_first) : At(recl_first, rc) \in Targets)
        => recl = recl_first

\* C9 amended: reclassifying twice gives what reclassifying once gives,
\* whenever every value of the first result is left in place by the table:
\* it lies in no interval (lo, hi], or the last row whose interval holds it
\* has it as its new value.
C9_IdempotentOnFixedValues ==
    (/\ recl_pass = 2
     /\ PassDone
     /\ \A rc \in CellsOf(recl_first) : LeftInPlace(At(recl_first, rc)))
        => recl = recl_first

\* a first pass that changed the grid into target values left in place,
\* and a second pass
C9_Witness ==
    /\ recl_pass = 2
    /\ PassDone
    /\ recl_first # elev
    /\ \A rc \in CellsOf(recl_first) :
          At(recl_first, rc) \in Targets /\ LeftInPlace(At(recl_first, rc))
    /\ recl = recl_first

\* C10 as stated: a cell with lo <= v < hi for a row is given the row's new
\* value, a cell matching no interval [lo, hi) is unchanged; a cell equal
\* to lo is reclassified by that row, a cell equal to hi is not.
C10_ClosedAtLo ==
    (recl_pass = 1 /\ PassDone /\ NonOverlapping) =>
        \A rc \in CellsOf(elev) :
            LET v == At(elev, rc)
                M == {k \in DOMAIN recl_table :
                         recl_table[k].lo <= v /\ v < recl_table[k].hi}
            IN  /\ \A k \in M : At(recl, rc) = recl_table[k].new
                /\ M = {} => At(recl, rc) = v

\* C10 amended: a cell with lo < v <= hi for a row is given the row's new
\* value (that of the last such row when several hold v), a cell matching
\* no interval (lo, hi] is unchanged; a cell equal to hi is reclassified by
\* that row, a cell equal to lo is not.
C10_ClosedAtHi ==
    (recl_pass = 1 /\ PassDone) =>
        \A rc \in CellsOf(elev) :
            LET v == At(elev, rc)
            IN  /\ RowsHolding(v) # {} =>
                      At(recl, rc) = recl_table[SetMax(RowsHolding(v))].new
                /\ RowsHolding(v) = {} => At(recl, rc) = v
                /\ \A k \in DOMAIN recl_table :
                      (NonOverlapping /\ v = recl_table[k].hi) =>
                          At(recl, rc) = recl_table[k].new
                /\ \A k \in DOMAIN recl_table :
                      (v = recl_table[k].lo /\ RowsHolding(v) = {}) =>
                          At(recl, rc) = v

\* the chapter's table on the values 12 and 0: 12 is in the class of the
\* row 0-12, 0 is unchanged
C10_Witness ==
    /\ recl_pass = 1
    /\ PassDone
    /\ recl_table = table03
    /\ elev.data = <<<<12, 0>>>>
    /\ recl.data = <<<<1, 0>>>>

\* the orders in which the rows of the table can be applied
RowOrders ==
    {f \in [DOMAIN recl_table -> DOMAIN recl_table] :
        \A k, m \in DOMAIN recl_table : k # m => f[k] # f[m]}

\* the assignments of the rows, made in a given order from the n-th on
RECURSIVE ApplyInOrder(_, _, _, _)
ApplyInOrder(out, src, order, n) ==
    IF n > Len(recl_table) THEN out
    ELSE ApplyInOrder(ApplyRow(out, src, recl_table[order[n]]), src, order, n + 1)

\* C30: in the first pass, over a table like the chapter's, in which no two
\* intervals overlap, the intervals are tested on elev and not on recl: at
\* most one row holds the value a cell has in elev, the rows applied in any
\* other order give the same recl, and an assignment never changes a cell
\* that an earlier assignment of the pass has changed, also when the new
\* value of the cell lies in the interval of the row being applied.
C30_TestsOriginal ==
    /\ [](recl_pass = 1 /\ PassDone /\ NonOverlapping =>
            /\ \A rc \in CellsOf(elev) : Cardinality(RowsHolding(At(elev, rc))) <= 1
            /\ \A order \in RowOrders : ApplyInOrder(elev, elev, order, 1) = recl)
    /\ [][(recl_pass = 1 /\ recl_row \in 1 .. Len(recl_table) /\ NonOverlapping) =>
            \A rc \in CellsOf(elev) :
                At(recl, rc) # At(elev, rc) => At(recl', rc) = At(recl, rc)]_vars

\* a first pass over two rows in which the first row rewrites a cell to a
\* value that lies in the interval of the second row, and the cell keeps
\* the value the first row gave it
C30_Witness ==
    /\ recl_pass = 1
    /\ PassDone
    /\ NonOverlapping
    /\ Len(recl_table) = 2
    /\ \E rc \in CellsOf(elev) :
          /\ InInterval(At(elev, rc), recl_table[1])
          /\ At(recl, rc) = recl_table[1].new
          /\ At(recl, rc) # At(elev, rc)
          /\ InInterval(At(recl, rc), recl_table[2])

-----------------------------------------------------------------------------
(***************************************************************************)
(* 05 sec-raster-to-points, sec-distance-to-nearest-geometry: a raster r   *)
(* with NaN cells, the array ids of unique cell IDs, its polygons          *)
(* (rasterio.features.shapes) and the rasterization of (geometry, value)   *)
(* pairs onto the template of ids.  A transform is the west and north      *)
(* edges and the cell size; the y axis points north, rows run south.       *)
(***************************************************************************)

VecRows == 2

VecCols == 3

Transform(west, north, res) == [west |-> west, north |-> north, res |-> res]

Transforms == {Transform(-4, 6, 2), Transform(0, 8, 4)}

\* np.arange(0, r.size).reshape(r.shape).astype(np.float32)
ArangeLike(a) ==
    Array("float32",
          [i \in 1 .. NRows(a) |-> [j \in 1 .. NCols(a) |->
              RatOfInt((i - 1) * NCols(a) + j - 1)]])

MaskNaNMutant(a, b) == a

\* a[np.isnan(b)] = np.nan
MaskNaN(a, b) ==
    Array(a.dtype,
          [i \in 1 .. NRows(a) |-> [j \in 1 .. NCols(a) |->
              IF b.data[i][j] = NaN THEN NaN ELSE a.data[i][j]]])

Neighbours4Mutant(a, rc) ==
    {q \in CellsOf(a) : q # rc /\ Abs(q[1] - rc[1]) <= 1 /\ Abs(q[2] - rc[2]) <= 1}

\* the cells sharing an edge with a cell
Neighbours4(a, rc) ==
    {q \in CellsOf(a) : Abs(q[1] - rc[1]) + Abs(q[2] - rc[2]) = 1}

\* the connected region of equal value that holds the cells S
RECURSIVE Grow(_, _)
Grow(a, S) ==
    LET T == S \cup {q \in CellsOf(a) :
                        \E p \in S : q \in Neighbours4(a, p) /\ At(a, q) = At(a, p)}
    IN  IF T = S THEN S ELSE Grow(a, T)

\* the regions of the cells that hold a value
Regions(a) ==
    {Grow(a, {rc}) : rc \in {q \in CellsOf(a) : ~IsNaN(a.dtype, At(a, q))}}

\* row-major position of a cell, and of the first cell of a region
ScanIndex(a, rc) == (rc[1] - 1) * NCols(a) + rc[2]

FirstCell(a, S) == SetMin({ScanIndex(a, rc) : rc \in S})

CellSquareMutant(t, rc) ==
    [xmin |-> t.west + (rc[2] - 1) * t.res, xmax |-> t.west + rc[2] * t.res,
     ymin |-> t.north + (rc[1] - 1) * t.res, ymax |-> t.north + rc[1] * t.res]

\* the square a cell covers under a transform
CellSquare(t, rc) ==
    [xmin |-> t.west + (rc[2] - 1) * t.res, xmax |-> t.west + rc[2] * t.res,
     ymin |-> t.north - rc[1] * t.res, ymax |-> t.north - (rc[1] - 1) * t.res]

\* the polygon of a region: the union of the squares of its cells
RegionPolygon(t, S) == [type |-> "Polygon", squares |-> {CellSquare(t, rc) : rc \in S}]

\* list(rasterio.features.shapes(a, transform=t)): (polygon, value) pairs,
\* one per region, NaN cells left out
Shapes(a, t) ==
    LET regs == Regions(a)
        order == SortedSeq({FirstCell(a, S) : S \in regs})
        reg(n) == CHOOSE S \in regs : FirstCell(a, S) = order[n]
    IN  [n \in DOMAIN order |->
            <<RegionPolygon(t, reg(n)), At(a, CHOOSE rc \in reg(n) : TRUE)>>]

\* the centre of a cell, res being even
CellCentre(t, rc) ==
    <<t.west + (rc[2] - 1) * t.res + t.res \div 2,
      t.north - (rc[1] - 1) * t.res - t.res \div 2>>

\* all_touched=False: a polygon burns the cells whose centre it holds, a
\* point the cell it falls in
Burns(g, t, rc) ==
    IF g.type = "Polygon"
    THEN \E sq \in g.squares :
            /\ sq.xmin < CellCentre(t, rc)[1] /\ CellCentre(t, rc)[1] < sq.xmax
            /\ sq.ymin < CellCentre(t, rc)[2] /\ CellCentre(t, rc)[2] < sq.ymax
    ELSE \E p \in g.pts :
            /\ CellSquare(t, rc).xmin <= p[1] /\ p[1] < CellSquare(t, rc).xmax
            /\ CellSquare(t, rc).ymin < p[2] /\ p[2] <= CellSquare(t, rc).ymax

\* rasterio.features.rasterize(pairs, out_shape, transform, fill): the
\* pairs are burnt in order, a later pair replaces an earlier one
RECURSIVE Burn(_, _, _, _)
Burn(img, pairs, t, n) ==
    IF n > Len(pairs) THEN img
    ELSE Burn(Array(img.dtype,
                    [i \in 1 .. NRows(img) |-> [j \in 1 .. NCols(img) |->
                        IF Burns(pairs[n][1], t, <<i, j>>)
                        THEN pairs[n][2] ELSE img.data[i][j]]]),
              pairs, t, n + 1)

Rasterize(pairs, out_shape, t, fill) ==
    Burn(Array("float64",
               [i \in 1 .. out_shape[1] |-> [j \in 1 .. out_shape[2] |-> fill]]),
         pairs, t, 1)

ArrayShape(a) == <<NRows(a), NCols(a)>>

VecRasters ==
    UNION {AllArrays("float32", h, w, {NaN, RatOfInt(1)}) :
              h \in 1 .. VecRows, w \in 1 .. VecCols}

InitVector ==
    /\ r05 \in VecRasters
    /\ new_transform \in Transforms
    /\ ids = NotEvaluated
    /\ pol = <<>>
    /\ image = NotEvaluated
    /\ vpc = "ids"
    /\ IdleBut({"vector"})

\* ids = np.arange(0, r.size)...; ids[np.isnan(r)] = np.nan
MakeIds ==
    /\ vpc = "ids"
    /\ ids' = MaskNaN(ArangeLike(r05), r05)
    /\ vpc' = "shapes"
    /\ UNCHANGED <<r05, new_transform, pol, image, notVector>>

\* shapes = rasterio.features.shapes(ids, transform=new_transform)
\* pol = list(shapes)
VectorizeIds ==
    /\ vpc = "shapes"
    /\ pol' = Shapes(ids, new_transform)
    /\ vpc' = "rasterize"
    /\ UNCHANGED <<r05, new_transform, ids, image, notVector>>

\* rasterize(pairs, out_shape=ids.shape, transform=new_transform,
\* fill=np.nan), the pairs being the polygons and their IDs
RasterizePol ==
    /\ vpc = "rasterize"
    /\ image' = Rasterize(pol, ArrayShape(ids), new_transform, NaN)
    /\ vpc' = "done"
    /\ UNCHANGED <<r05, new_transform, ids, pol, notVector>>

NextVector ==
    \/ MakeIds
    \/ VectorizeIds
    \/ RasterizePol

SpecVector == InitVector /\ [][NextVector]_vars

-----------------------------------------------------------------------------
(***************************************************************************)
(* 03 sec-spatial-joining: x.sjoin(y, how).  A layer is a sequence of      *)
(* features, a feature a geometry and a record of attribute columns; the   *)
(* index of a feature is its position, from 0.  The join predicate is the  *)
(* default, 'intersects'.                                                  *)
(***************************************************************************)

MaxJoinPoints == 2

\* point.buffer(d): the polygon shapely puts around the point, its corners
\* on the circle of radius d, four of them on the axes
Buffer(p, d) == [type |-> "Buffer", centre |-> CHOOSE c \in p.pts : TRUE, radius |-> d]

\* a buffer and a point intersect when the point is nearer than the
\* radius, or at the radius on an axis, where the polygon has a corner
\* (integer coordinates: a point nearer than the radius is inside the
\* polygon, one at the radius elsewhere is outside)
BufferIntersects(b, g) ==
    \E q \in g.pts :
        LET dx == q[1] - b.centre[1]
            dy == q[2] - b.centre[2]
        IN  \/ dx * dx + dy * dy < b.radius * b.radius
            \/ dx * dx + dy * dy = b.radius * b.radius /\ (dx = 0 \/ dy = 0)

\* geometry.centroid
Centroid(g) ==
    IF g.type = "Buffer" THEN Point(g.centre[1], g.centre[2]) ELSE g

Feature(geometry, data) == [geometry |-> geometry, data |-> data]

\* positions of the features of right that the geometry g intersects
Matches03(g, right) ==
    {j \in DOMAIN right :
        IF g.type = "Buffer"
        THEN BufferIntersects(g, right[j].geometry)
        ELSE Intersects(g, right[j].geometry)}

SjoinMutant(left, right, how) ==
    LET row(i) ==
            LET hit == SortedSeq(Matches03(left[i].geometry, right))
            IN  [k \in DOMAIN hit |->
                    [index |-> i - 1, geometry |-> left[i].geometry,
                     left |-> left[i].data,
                     index_right |-> hit[k] - 1, right |-> right[hit[k]].data]]
    IN  Flatten([i \in DOMAIN left |-> row(i)])

\* left.sjoin(right, how): one row per matching pair, in the order of left
\* and then of right; with how='left' a feature of left without match is
\* kept in one row whose right columns are NaN, with how='inner' it is
\* dropped
Sjoin(left, right, how) ==
    LET row(i) ==
            LET hit == SortedSeq(Matches03(left[i].geometry, right))
            IN  IF hit = <<>>
                THEN IF how = "left"
                     THEN <<[index |-> i - 1, geometry |-> left[i].geometry,
                             left |-> left[i].data,
                             index_right |-> NaN, right |-> NaN]>>
                     ELSE <<>>
                ELSE [k \in DOMAIN hit |->
                         [index |-> i - 1, geometry |-> left[i].geometry,
                          left |-> left[i].data,
                          index_right |-> hit[k] - 1, right |-> right[hit[k]].data]]
    IN  Flatten([i \in DOMAIN left |-> row(i)])

\* points on the common edge of the polygons of poly2, inside one of them
\* and outside both
JoinPoints == {Point(x, y) : x \in {2, 7, 10, 12}, y \in {1, 5, 8}}

Country(name, g) == Feature(g, [name_long |-> name])

Worlds ==
    {<<Country("A", poly2[1]), Country("B", poly2[2])>>,
     <<Country("B", poly2[2])>>,
     <<Country("B", poly2[2]), Country("A", poly2[1]), Country("C", poly2[1])>>}

InitJoin ==
    /\ random_points \in
          UNION {[1 .. n -> {Feature(p, [id |-> 0]) : p \in JoinPoints}] :
                    n \in 1 .. MaxJoinPoints}
    /\ world \in Worlds
    /\ random_joined = <<>>
    /\ jpc = "sjoin"
    /\ IdleBut({"join"})

\* random_joined = random_points.sjoin(world, how='left')
RandomJoined ==
    /\ jpc = "sjoin"
    /\ random_joined' = Sjoin(random_points, world, "left")
    /\ jpc' = "done"
    /\ UNCHANGED <<random_points, world, notJoin>>

NextJoin == RandomJoined

SpecJoin == InitJoin /\ [][NextJoin]_vars

\* the rows of the join that come from the feature of random_points at
\* position i
RowsOfPoint(i) == SelectSeq(random_joined, LAMBDA rw : rw.index = i - 1)

\* C12: the left join holds every feature of random_points at least once:
\* a point with m >= 1 matching countries is in exactly m rows, one per
\* match with the attributes of that country, a point without match in
\* exactly one row with NaN attributes; the number of rows is the sum over
\* the points of max(1, matches).
C12_LeftJoinCardinality ==
    jpc = "done" =>
        /\ \A i \in DOMAIN random_points :
              LET M == Matches03(random_points[i].geometry, world)
                  rows == RowsOfPoint(i)
              IN  IF M = {}
                  THEN /\ Len(rows) = 1
                       /\ rows[1].right = NaN
                       /\ rows[1].index_right = NaN
                  ELSE /\ Len(rows) = Cardinality(M)
                       /\ \A j \in M :
                             Len(SelectSeq(rows, LAMBDA rw :
                                    /\ rw.index_right = j - 1
                                    /\ rw.right = world[j].data)) = 1
        /\ Len(random_joined) =
              IntSumSeq([i \in DOMAIN random_points |->
                  IF Matches03(random_points[i].geometry, world) = {} THEN 1
                  ELSE Cardinality(Matches03(random_points[i].geometry, world))])

\* a join of a point in two countries or more and a point in none
C12_Witness ==
    /\ jpc = "done"
    /\ \E i \in DOMAIN random_points : Len(RowsOfPoint(i)) >= 2
    /\ \E i \in DOMAIN random_points :
          Len(RowsOfPoint(i)) = 1 /\ RowsOfPoint(i)[1].right = NaN
    /\ Len(random_joined) > Len(random_points)

-----------------------------------------------------------------------------
(***************************************************************************)
(* 03 sec-spatial-joining, non-overlapping join: the points of cycle_hire  *)
(* are buffered by 20 m, joined to cycle_hire_osm (sjoin, whose default is *)
(* how='inner'), dissolved by 'id' with the mean of 'capacity' and turned  *)
(* back into points.  Coordinates are metres.                              *)
(***************************************************************************)

BufferDistance == 20

MaxHire == 2

\* np.mean of a column, NaN skipped; NaN when nothing is left
MeanSkipNaN(col) ==
    LET have == SelectSeq(col, LAMBDA v : v # NaN)
    IN  IF have = <<>> THEN NaN
        ELSE Frac(RatSumSeq(have)[1], RatSumSeq(have)[2] * Len(have))

\* rows[['id', 'capacity', 'geometry']].dissolve(by='id', aggfunc='mean')
\* .reset_index(): one row per id among the rows, ids ascending; the
\* geometry of a group is the union of its geometries, which are copies of
\* the buffer of that id
Dissolve(rows) ==
    LET keys == SortedSeq({rows[k].left.id : k \in DOMAIN rows})
        group(id) == SelectSeq(rows, LAMBDA rw : rw.left.id = id)
    IN  [n \in DOMAIN keys |->
            [id |-> keys[n],
             geometry |-> group(keys[n])[1].geometry,
             capacity |-> MeanSkipNaN([k \in DOMAIN group(keys[n]) |->
                                          IF group(keys[n])[k].right = NaN THEN NaN
                                          ELSE group(keys[n])[k].right.capacity])]]

\* stations within and beyond 20 m of one another, one of them at 20 m
\* off the axes
HirePositions == {Point(0, 0), Point(10, 0), Point(20, 0), Point(12, 16), Point(100, 0)}

\* cycle_hire: ids 1, 2, ... in order
Targets03 ==
    UNION {{[i \in 1 .. n |-> Feature(ps[i], [id |-> i])] :
               ps \in [1 .. n -> HirePositions]} : n \in 1 .. MaxHire}

\* cycle_hire_osm: one or two stations, capacity known or NaN
Sources03 ==
    UNION {[1 .. n -> {Feature(p, [capacity |-> c]) :
                          p \in HirePositions, c \in {NaN, RatOfInt(10), RatOfInt(25)}}] :
              n \in {1, 2}}

InitCycle ==
    /\ cycle_hire \in Targets03
    /\ cycle_hire_osm \in Sources03
    /\ cycle_hire_buffers = <<>>
    /\ cpc = "buffer"
    /\ IdleBut({"cycle"})

\* cycle_hire_buffers = cycle_hire.copy(); .geometry = .buffer(20)
HireBuffer ==
    /\ cpc = "buffer"
    /\ cycle_hire_buffers' =
          [i \in DOMAIN cycle_hire |->
              Feature(Buffer(cycle_hire[i].geometry, BufferDistance), cycle_hire[i].data)]
    /\ cpc' = "sjoin"
    /\ UNCHANGED <<cycle_hire, cycle_hire_osm, notCycle>>

\* cycle_hire_buffers = gpd.sjoin(cycle_hire_buffers, cycle_hire_osm)
HireSjoin ==
    /\ cpc = "sjoin"
    /\ cycle_hire_buffers' = Sjoin(cycle_hire_buffers, cycle_hire_osm, "inner")
    /\ cpc' = "dissolve"
    /\ UNCHANGED <<cycle_hire, cycle_hire_osm, notCycle>>

\* cycle_hire_buffers = ...dissolve(by='id', aggfunc='mean').reset_index()
HireDissolve ==
    /\ cpc = "dissolve"
    /\ cycle_hire_buffers' = Dissolve(cycle_hire_buffers)
    /\ cpc' = "centroid"
    /\ UNCHANGED <<cycle_hire, cycle_hire_osm, notCycle>>

\* cycle_hire_buffers.geometry = cycle_hire_buffers.centroid
HireCentroid ==
    /\ cpc = "centroid"
    /\ cycle_hire_buffers' =
          [k \in DOMAIN cycle_hire_buffers |->
              [id |-> cycle_hire_buffers[k].id,
               geometry |-> Centroid(cycle_hire_buffers[k].geometry),
               capacity |-> cycle_hire_buffers[k].capacity]]
    /\ cpc' = "done"
    /\ UNCHANGED <<cycle_hire, cycle_hire_osm, notCycle>>

NextCycle ==
    \/ HireBuffer
    \/ HireSjoin
    \/ HireDissolve
    \/ HireCentroid

SpecCycle == InitCycle /\ [][NextCycle]_vars

\* C13: after the buffer, the join and the aggregation per id, the result
\* has as many rows as cycle_hire, one row per id of cycle_hire, and the
\* geometry of each row is the point of that id again.
C13_SameRowsAsTarget ==
    cpc = "done" =>
        /\ Len(cycle_hire_buffers) = Len(cycle_hire)
        /\ \A i \in DOMAIN cycle_hire :
              /\ cycle_hire_buffers[i].id = cycle_hire[i].data.id
              /\ cycle_hire_buffers[i].geometry = cycle_hire[i].geometry

\* C13, as the script behaves: one row per id of cycle_hire that has a
\* station of cycle_hire_osm in its buffer, ids ascending, with the point
\* of that id and the mean of the known capacities
C13_RowsOfMatchedTargets ==
    cpc = "done" =>
        LET hit == {i \in DOMAIN cycle_hire :
                       Matches03(Buffer(cycle_hire[i].geometry, BufferDistance),
                                 cycle_hire_osm) # {}}
        IN  /\ Len(cycle_hire_buffers) = Cardinality(hit)
            /\ \A k \in DOMAIN cycle_hire_buffers :
                  /\ cycle_hire_buffers[k].id = SortedSeq(hit)[k]
                  /\ cycle_hire_buffers[k].geometry =
                         cycle_hire[SortedSeq(hit)[k]].geometry

\* a finished run in which one station has two stations of cycle_hire_osm
\* within 20 m and another has none
C13_Witness ==
    /\ cpc = "done"
    /\ Len(cycle_hire) = 2
    /\ Len(cycle_hire_buffers) = 1
    /\ \E i \in DOMAIN cycle_hire :
          Cardinality(Matches03(Buffer(cycle_hire[i].geometry, BufferDistance),
                                cycle_hire_osm)) = 2

-----------------------------------------------------------------------------
(***************************************************************************)
(* 03 many-to-many evaluation: first.apply(lambda x: second.relation(x)).  *)
(* The chapter builds the matrix of intersects for points and poly2 and    *)
(* the matrix of distances for three points of nz_height and the two       *)
(* regions of co.                                                          *)
(***************************************************************************)

MatrixMutant(relation, first, second) ==
    [j \in DOMAIN second |-> ManyToOne(relation, first, second[j])]

\* first.apply(lambda x: second.relation(x)): one row per geometry x of
\* first, the row being the many-to-one evaluation of second against x
Matrix(relation, first, second) ==
    [i \in DOMAIN first |-> ManyToOne(relation, second, first[i])]

\* the polygons of poly2 in both orders, alone and repeated
PolySeries ==
    {poly2, <<poly2[2], poly2[1]>>, <<poly2[1]>>, <<poly2[2], poly2[1], poly2[2]>>}

InitMatrix ==
    /\ mx_first \in PointSeries
    /\ mx_second \in PolySeries
    /\ mx_intersects = <<>>
    /\ mx_distance = <<>>
    /\ mpc = "intersects"
    /\ IdleBut({"matrix"})

\* points.apply(lambda x: poly2.intersects(x))
MatrixIntersects ==
    /\ mpc = "intersects"
    /\ mx_intersects' = Matrix("intersects", mx_first, mx_second)
    /\ mpc' = "distance"
    /\ UNCHANGED <<mx_first, mx_second, mx_distance, notMatrix>>

\* d = nz_height.iloc[:3, :].apply(lambda x: co.distance(x.geometry), axis=1)
MatrixDistance ==
    /\ mpc = "distance"
    /\ mx_distance' = Matrix("distance_sq", mx_first, mx_second)
    /\ mpc' = "done"
    /\ UNCHANGED <<mx_first, mx_second, mx_intersects, notMatrix>>

NextMatrix ==
    \/ MatrixIntersects
    \/ MatrixDistance

SpecMatrix == InitMatrix /\ [][NextMatrix]_vars

-----------------------------------------------------------------------------
(***************************************************************************)
(* 03 sec-zonal-operations: the cells of elev split by the classes of      *)
(* grain, and their mean, rounded to one decimal, per class.  elev is the  *)
(* integer array of the chapter or a float array with NaN cells.           *)
(***************************************************************************)

\* np.unique(a): the values of a (sorted)
Unique(a) == {At(a, rc) : rc \in CellsOf(a)}

\* the cells of a set in row-major order
ScanOrder(a, S) ==
    LET order == SortedSeq({ScanIndex(a, rc) : rc \in S})
    IN  [k \in DOMAIN order |-> CHOOSE rc \in S : ScanIndex(a, rc) = order[k]]

ZoneCellsMutant(a, zones, i) ==
    LET cells == ScanOrder(a, {rc \in CellsOf(a) : At(zones, rc) >= i})
    IN  [k \in DOMAIN cells |-> At(a, cells[k])]

\* a[zones == i]: the values of a where zones is i, in row-major order
ZoneCells(a, zones, i) ==
    LET cells == ScanOrder(a, {rc \in CellsOf(a) : At(zones, rc) = i})
    IN  [k \in DOMAIN cells |-> At(a, cells[k])]

\* float of a cell of an integer or of a float array
AsRat(dtype, v) ==
    IF dtype \in {"uint8", "int8", "int32", "int64"} THEN RatOfInt(v) ELSE v

\* x.mean() of cells of the given dtype: NaN as soon as a cell is NaN
Mean(x, dtype) ==
    IF \E k \in DOMAIN x : IsNaN(dtype, x[k]) THEN NaN
    ELSE LET total == RatSumSeq([k \in DOMAIN x |-> AsRat(dtype, x[k])])
         IN  Frac(total[1], total[2] * Len(x))

\* q.round(1), q >= 0: the nearest multiple of 1/10, the even one of two
Round1(q) ==
    IF q = NaN THEN NaN
    ELSE LET f == (10 * q[1]) \div q[2]
             rem == (10 * q[1]) % q[2]
         IN  IF 2 * rem < q[2] THEN Frac(f, 10)
             ELSE IF 2 * rem > q[2] THEN Frac(f + 1, 10)
             ELSE IF f % 2 = 0 THEN Frac(f, 10) ELSE Frac(f + 1, 10)

ZonalShapes == {<<1, 1>>, <<1, 2>>, <<2, 2>>}

ZonalElevs(h, w) ==
    AllArrays("uint8", h, w, {1, 2})
    \cup AllArrays("float64", h, w, {NaN, RatOfInt(1), RatOfInt(2)})

InitZonal ==
    /\ \E sh \in ZonalShapes :
          /\ elev \in ZonalElevs(sh[1], sh[2])
          /\ grain \in AllArrays("uint8", sh[1], sh[2], {0, 1, 2})
    /\ z_cells = <<>>
    /\ z = <<>>
    /\ zpc = "cells"
    /\ IdleBut({"raster", "zonal"})

\* z = {i: elev[grain == i] for i in np.unique(grain)}
ZonalCells ==
    /\ zpc = "cells"
    /\ z_cells' = [i \in Unique(grain) |-> ZoneCells(elev, grain, i)]
    /\ zpc' = "mean"
    /\ UNCHANGED <<elev, grain, z, notZonal>>

\* z = {i: elev[grain == i].mean().round(1) for i in np.unique(grain)}
ZonalMean ==
    /\ zpc = "mean"
    /\ z' = [i \in Unique(grain) |-> Round1(Mean(ZoneCells(elev, grain, i), elev.dtype))]
    /\ zpc' = "done"
    /\ UNCHANGED <<elev, grain, z_cells, notZonal>>

NextZonal ==
    \/ ZonalCells
    \/ ZonalMean

SpecZonal == InitZonal /\ [][NextZonal]_vars

\* the cells of a zone and how many of them come before a cell in
\* row-major order
Zone(i) == {rc \in CellsOf(grain) : At(grain, rc) = i}

RankInZone(rc) ==
    Cardinality({q \in Zone(At(grain, rc)) : ScanIndex(grain, q) <= ScanIndex(grain, rc)})

-----------------------------------------------------------------------------
(***************************************************************************)
(* 07 sec-data-output-raster: an int32 raster whose missing cells hold the *)
(* flag -9999, written with nodata=-9999 and read back; its mean taken     *)
(* literally, after conversion to float with NaN, and as a masked array.   *)
(***************************************************************************)

\* nodata = -9999
Nodata == -9999

\* the mean of a sequence of integers, as a float
IntMean(x) == Frac(IntSumSeq(x), Len(x))

\* the cells of an array, row by row
Ravel(a) ==
    [k \in 1 .. NRows(a) * NCols(a) |->
        a.data[((k - 1) \div NCols(a)) + 1][((k - 1) % NCols(a)) + 1]]

\* r == value
EqualsValue(a, value) ==
    Array("bool",
          [i \in 1 .. NRows(a) |-> [j \in 1 .. NCols(a) |->
              a.data[i][j] = value]])

AssignNaNMutant(a, m) ==
    Array(a.dtype,
          [i \in 1 .. NRows(a) |-> [j \in 1 .. NCols(a) |->
              IF m.data[i][j] THEN a.data[i][j] ELSE NaN]])

\* a[mask] = np.nan
AssignNaN(a, m) ==
    Array(a.dtype,
          [i \in 1 .. NRows(a) |-> [j \in 1 .. NCols(a) |->
              IF m.data[i][j] THEN NaN ELSE a.data[i][j]]])

NanMeanMutant(a) ==
    LET have == SelectSeq(Ravel(a), LAMBDA v : v # NaN)
    IN  IF have = <<>> THEN NaN
        ELSE Frac(RatSumSeq(have)[1], RatSumSeq(have)[2] * Len(Ravel(a)))

\* np.nanmean(a): the mean of the cells that are not NaN; NaN if none is
NanMean(a) == MeanSkipNaN(Ravel(a))

\* src.read(masked=True): the values and the mask of the nodata cells
ReadMasked(a, nodata) == [data |-> a, mask |-> EqualsValue(a, nodata)]

\* numpy.ma.masked, the result of a reduction over masked cells only
Masked == <<"masked">>

\* m.mean() of a masked array: the mean of the cells not masked
MaskedMean(m) ==
    LET keep == {k \in DOMAIN Ravel(m.data) : ~Ravel(m.mask)[k]}
        vals == [n \in DOMAIN SortedSeq(keep) |-> Ravel(m.data)[SortedSeq(keep)[n]]]
    IN  IF keep = {} THEN Masked ELSE IntMean(vals)

NodataLists == [1 .. 4 -> {1, 2, 4, Nodata}]

InitNodata ==
    /\ r07 \in {AsType(Reshape(list, 2, 2), "int32") : list \in NodataLists}
    /\ mask07 = NotEvaluated
    /\ r_mean = NotEvaluated
    /\ r_nanmean = NotEvaluated
    /\ r_masked = NotEvaluated
    /\ r_masked_mean = NotEvaluated
    /\ ndpc = "mean"
    /\ IdleBut({"nodata"})

\* r = src.read(); r.mean()
LiteralMean ==
    /\ ndpc = "mean"
    /\ r_mean' = IntMean(Ravel(r07))
    /\ ndpc' = "float"
    /\ UNCHANGED <<r07, mask07, r_nanmean, r_masked, r_masked_mean, notNodata>>

\* mask = r == src.nodata; r = r.astype(np.float64); r[mask] = np.nan;
\* np.nanmean(r)
FloatRoute ==
    /\ ndpc = "float"
    /\ mask07' = EqualsValue(r07, Nodata)
    /\ r_nanmean' = NanMean(AssignNaN(AsTypeFloat(r07), EqualsValue(r07, Nodata)))
    /\ ndpc' = "masked"
    /\ UNCHANGED <<r07, r_mean, r_masked, r_masked_mean, notNodata>>

\* r = src.read(masked=True); r.mean()
MaskedRoute ==
    /\ ndpc = "masked"
    /\ r_masked' = ReadMasked(r07, Nodata)
    /\ r_masked_mean' = MaskedMean(ReadMasked(r07, Nodata))
    /\ ndpc' = "done"
    /\ UNCHANGED <<r07, mask07, r_mean, r_nanmean, notNodata>>

NextNodata ==
    \/ LiteralMean
    \/ FloatRoute
    \/ MaskedRoute

SpecNodata == InitNodata /\ [][NextNodata]_vars

\* the cells that do not hold the flag, their sum and their number
ValidCells == {rc \in CellsOf(r07) : At(r07, rc) # Nodata}

ValidSum == IntSumSeq(SelectSeq(Ravel(r07), LAMBDA v : v # Nodata))

\* C17 as stated: every mean taken over the raster leaves the flagged
\* cells out of the sum and out of the count; for [1, 2, -9999, 4] it is
\* 7/3, by the float route and the masked route alike.
C17_EveryReductionExcludes ==
    (ndpc = "done" /\ ValidCells # {}) =>
        /\ r_mean = Frac(ValidSum, Cardinality(ValidCells))
        /\ r_nanmean = Frac(ValidSum, Cardinality(ValidCells))
        /\ r_masked_mean = Frac(ValidSum, Cardinality(ValidCells))

\* C17 amended: the mean leaves the flagged cells out of the sum and out
\* of the count on the float route (np.nanmean) and on the masked route,
\* which agree whenever a cell is valid (7/3 for [1, 2, -9999, 4]); the
\* literal r.mean() counts the flag as a value (-2498 for that raster);
\* with no valid cell the float route gives NaN, the masked route masked.
C17_RoutesExclude ==
    ndpc = "done" =>
        /\ r_mean = Frac(IntSumSeq(Ravel(r07)), 4)
        /\ ValidCells # {} =>
              /\ r_nanmean = Frac(ValidSum, Cardinality(ValidCells))
              /\ r_masked_mean = r_nanmean
        /\ ValidCells = {} => r_nanmean = NaN /\ r_masked_mean = Masked
        /\ r07.data = <<<<1, 2>>, <<Nodata, 4>>>> =>
              /\ r_nanmean = <<7, 3>>
              /\ r_masked_mean = <<7, 3>>
              /\ r_mean = <<-2498, 1>>

\* the raster of the chapter, its three means taken
C17_Witness ==
    /\ ndpc = "done"
    /\ r07.data = <<<<1, 2>>, <<Nodata, 4>>>>
    /\ r_nanmean = <<7, 3>>
    /\ r_masked_mean = <<7, 3>>
    /\ r_mean # r_nanmean

-----------------------------------------------------------------------------
(***************************************************************************)
(* 05 sec-rasterization: rasterio.features.rasterize of a point layer      *)
(* onto a template made from the layer's bounds and a resolution, with     *)
(* the default merge (replace, keeping last) and with MergeAlg.add, and    *)
(* of a polygon layer with fill=np.nan.  Burnt values are carried as       *)
(* rationals.                                                              *)
(***************************************************************************)

MaxBurn == 3

\* math.ceil(a / b) for a >= 0, b > 0
Ceil(a, b) == (a + b - 1) \div b

\* the corners of a geometry, a point set or a union of squares
Corners(g) ==
    IF g.type = "Polygon"
    THEN UNION {{<<sq.xmin, sq.ymin>>, <<sq.xmax, sq.ymax>>} : sq \in g.squares}
    ELSE g.pts

\* layer.total_bounds: (minx, miny, maxx, maxy)
Bounds05(layer) ==
    LET pts == UNION {Corners(layer[n].geometry) : n \in DOMAIN layer}
    IN  <<SetMin({p[1] : p \in pts}), SetMin({p[2] : p \in pts}),
          SetMax({p[1] : p \in pts}), SetMax({p[2] : p \in pts})>>

\* rasterio.transform.from_origin(west=bounds[0], north=bounds[3], res, res)
TemplateTransform(bounds, res) == Transform(bounds[1], bounds[4], res)

\* (rows, cols), the extents over the resolution, rounded up
TemplateShape(bounds, res) ==
    <<Ceil(bounds[4] - bounds[2], res), Ceil(bounds[3] - bounds[1], res)>>

\* ((g, 1) for g in layer.geometry.to_list())
FixedPairs(layer) == [n \in DOMAIN layer |-> <<layer[n].geometry, RatOfInt(1)>>]

\* ((g, v) for g, v in layer[['geometry', 'capacity']]
\* .dropna(subset='capacity').to_numpy().tolist())
CapacityPairs(layer) ==
    LET have == SelectSeq(layer, LAMBDA f : f.data.capacity # NaN)
    IN  [n \in DOMAIN have |-> <<have[n].geometry, have[n].data.capacity>>]

RECURSIVE BurnAddMutant(_, _, _, _)
BurnAddMutant(img, pairs, t, n) == Burn(img, pairs, t, n)

\* merge_alg=rasterio.enums.MergeAlg.add: a burnt value is added to the
\* value the cell holds
RECURSIVE BurnAdd(_, _, _, _)
BurnAdd(img, pairs, t, n) ==
    IF n > Len(pairs) THEN img
    ELSE BurnAdd(Array(img.dtype,
                       [i \in 1 .. NRows(img) |-> [j \in 1 .. NCols(img) |->
                           IF Burns(pairs[n][1], t, <<i, j>>)
                           THEN RatAdd(img.data[i][j], pairs[n][2])
                           ELSE img.data[i][j]]]),
                 pairs, t, n + 1)

RasterizeAdd(pairs, out_shape, t, fill) ==
    BurnAdd(Array("float64",
                  [i \in 1 .. out_shape[1] |-> [j \in 1 .. out_shape[2] |-> fill]]),
            pairs, t, 1)

\* the fill of rasterize when none is given
DefaultFill == RatOfInt(0)

ChResolutions == {2, 3}

ChPositions == {<<0, 0>>, <<1, 3>>, <<1, 4>>}

ChFeatures ==
    {Feature(Point(p[1], p[2]), [capacity |-> c]) :
        p \in ChPositions, c \in {NaN, RatOfInt(1), RatOfInt(2)}}

\* the point layers whose bounds have an extent in x and in y
ChLayers ==
    {l \in UNION {[1 .. n -> ChFeatures] : n \in 1 .. MaxBurn} :
        /\ Bounds05(l)[1] < Bounds05(l)[3]
        /\ Bounds05(l)[2] < Bounds05(l)[4]}

\* one polygon, an L of three squares of side 4
Californias ==
    {<<Feature(RegionPolygon(Transform(0, 8, 4), S), [NAME |-> "California"])>> :
        S \in {{<<1, 1>>, <<2, 1>>, <<2, 2>>}}}

InitBurn ==
    /\ ch_layer \in ChLayers
    /\ ch_res \in ChResolutions
    /\ ch_raster1 = NotEvaluated
    /\ ch_raster2 = NotEvaluated
    /\ ch_raster3 = NotEvaluated
    /\ california \in Californias
    /\ california_raster2 = NotEvaluated
    /\ bpc = "ch_raster1"
    /\ IdleBut({"burn"})

ChTransform == TemplateTransform(Bounds05(ch_layer), ch_res)

ChShape == TemplateShape(Bounds05(ch_layer), ch_res)

\* ch_raster1 = rasterize(shapes=g, out_shape=shape, transform=transform)
ChRaster1 ==
    /\ bpc = "ch_raster1"
    /\ ch_raster1' = Rasterize(FixedPairs(ch_layer), ChShape, ChTransform, DefaultFill)
    /\ bpc' = "ch_raster2"
    /\ UNCHANGED <<ch_layer, ch_res, ch_raster2, ch_raster3, california,
                   california_raster2, notBurn>>

\* ch_raster2 = rasterize(..., merge_alg=rasterio.enums.MergeAlg.add)
ChRaster2 ==
    /\ bpc = "ch_raster2"
    /\ ch_raster2' = RasterizeAdd(FixedPairs(ch_layer), ChShape, ChTransform, DefaultFill)
    /\ bpc' = "ch_raster3"
    /\ UNCHANGED <<ch_layer, ch_res, ch_raster1, ch_raster3, california,
                   california_raster2, notBurn>>

\* ch_raster3 = rasterize(...), the pairs being geometry and capacity
ChRaster3 ==
    /\ bpc = "ch_raster3"
    /\ ch_raster3' = RasterizeAdd(CapacityPairs(ch_layer), ChShape, ChTransform, DefaultFill)
    /\ bpc' = "california_raster2"
    /\ UNCHANGED <<ch_layer, ch_res, ch_raster1, ch_raster2, california,
                   california_raster2, notBurn>>

CalTransform == TemplateTransform(Bounds05(california), 2)

CalShape == TemplateShape(Bounds05(california), 2)

\* california_raster2 = rasterize(((g, 1) for g in california.geometry
\* .to_list()), out_shape=shape, transform=transform, fill=np.nan)
CaliforniaRaster2 ==
    /\ bpc = "california_raster2"
    /\ california_raster2' = Rasterize(FixedPairs(california), CalShape, CalTransform, NaN)
    /\ bpc' = "done"
    /\ UNCHANGED <<ch_layer, ch_res, ch_raster1, ch_raster2, ch_raster3,
                   california, notBurn>>

NextBurn ==
    \/ ChRaster1
    \/ ChRaster2
    \/ ChRaster3
    \/ CaliforniaRaster2

SpecBurn == InitBurn /\ [][NextBurn]_vars

\* the positions of the pairs that activate a cell, in sequence order
Activating(pairs, t, rc) ==
    SortedSeq({n \in DOMAIN pairs : Burns(pairs[n][1], t, rc)})

ValuesOf(pairs, t, rc) ==
    [k \in DOMAIN Activating(pairs, t, rc) |-> pairs[Activating(pairs, t, rc)[k]][2]]

\* a cell of a replace-last raster: the fill, or the last activating value
ReplaceLastCell(img, pairs, t, fill, rc) ==
    At(img, rc) = IF ValuesOf(pairs, t, rc) = <<>> THEN fill
                  ELSE ValuesOf(pairs, t, rc)[Len(ValuesOf(pairs, t, rc))]

\* a cell of a sum raster: the fill, or the sum of the activating values
SumCell(img, pairs, t, fill, rc) ==
    At(img, rc) = IF ValuesOf(pairs, t, rc) = <<>> THEN fill
                  ELSE RatSumSeq(ValuesOf(pairs, t, rc))

\* C18: in every raster of the point layer and of the polygon layer a cell
\* that no geometry activates holds the fill (0, or NaN where fill=np.nan);
\* under the default merge an activated cell holds the value of the last
\* activating pair, also when the pairs carry different values; under
\* MergeAlg.add it holds the sum of the values of the activating pairs,
\* which is their number when every value is 1.
C18_MergePolicies ==
    bpc = "done" =>
        /\ ArrayShape(ch_raster1) = ChShape
        /\ \A rc \in CellsOf(ch_raster1) :
              /\ ReplaceLastCell(ch_raster1, FixedPairs(ch_layer), ChTransform,
                                 DefaultFill, rc)
              /\ ReplaceLastCell(Rasterize(CapacityPairs(ch_layer), ChShape,
                                           ChTransform, DefaultFill),
                                 CapacityPairs(ch_layer), ChTransform, DefaultFill, rc)
              /\ SumCell(ch_raster2, FixedPairs(ch_layer), ChTransform, DefaultFill, rc)
              /\ At(ch_raster2, rc) =
                    RatOfInt(Len(Activating(FixedPairs(ch_layer), ChTransform, rc)))
              /\ SumCell(ch_raster3, CapacityPairs(ch_layer), ChTransform,
                         DefaultFill, rc)
        /\ \A rc \in CellsOf(california_raster2) :
              ReplaceLastCell(california_raster2, FixedPairs(california),
                              CalTransform, NaN, rc)

\* three stations, two of them in one cell with capacities 1 and 2: the
\* cell holds 1, the count 2 and the capacity 3, another cell holds the
\* fill; the polygon leaves a cell at NaN and burns another
C18_Witness ==
    /\ bpc = "done"
    /\ Len(ch_layer) = 3
    /\ \E rc \in CellsOf(ch_raster1) :
          /\ ValuesOf(CapacityPairs(ch_layer), ChTransform, rc)
                = <<RatOfInt(1), RatOfInt(2)>>
          /\ At(ch_raster1, rc) = RatOfInt(1)
          /\ At(ch_raster2, rc) = RatOfInt(2)
          /\ At(ch_raster3, rc) = RatOfInt(3)
    /\ \E rc \in CellsOf(ch_raster1) :
          /\ Activating(FixedPairs(ch_layer), ChTransform, rc) = <<>>
          /\ At(ch_raster1, rc) = DefaultFill
          /\ At(ch_raster3, rc) = DefaultFill
    /\ \E rc \in CellsOf(california_raster2) : At(california_raster2, rc) = NaN
    /\ \E rc \in CellsOf(california_raster2) : At(california_raster2, rc) = RatOfInt(1)

-----------------------------------------------------------------------------
(***************************************************************************)
(* 05 sec-raster-to-polygons: rasterio.features.shapes of the grain        *)
(* raster, the list of its (polygon, value) pairs and the polygon layer    *)
(* made of them.                                                           *)
(***************************************************************************)

\* grain rasters: three classes on two rows, two classes on three rows
GrainRasters ==
    AllArrays("uint8", 2, 3, {0, 1, 2}) \cup AllArrays("uint8", 3, 3, {0, 1})

InitGrain ==
    /\ src_grain \in GrainRasters
    /\ grain_transform \in Transforms
    /\ pol_grain = NotEvaluated
    /\ result_grain = NotEvaluated
    /\ gpc = "shapes"
    /\ IdleBut({"grain"})

\* shapes = rasterio.features.shapes(rasterio.band(src_grain, 1),
\* transform=src_grain.transform); pol = list(shapes)
ShapesGrain ==
    /\ gpc = "shapes"
    /\ pol_grain' = Shapes(src_grain, grain_transform)
    /\ gpc' = "result"
    /\ UNCHANGED <<src_grain, grain_transform, result_grain, notGrain>>

\* geom = [shape(i[0]) for i in pol]; values = [i[1] for i in pol]
\* result = gpd.GeoDataFrame({'value': values, 'geometry': geom})
ResultGrain ==
    /\ gpc = "result"
    /\ result_grain' = [n \in DOMAIN pol_grain |->
                           Feature(pol_grain[n][1], [value |-> pol_grain[n][2]])]
    /\ gpc' = "done"
    /\ UNCHANGED <<src_grain, grain_transform, pol_grain, notGrain>>

NextGrain ==
    \/ ShapesGrain
    \/ ResultGrain

SpecGrain == InitGrain /\ [][NextGrain]_vars

\* the cells a polygon of the layer covers
CellsUnder(g) == {rc \in CellsOf(src_grain) : CellSquare(grain_transform, rc) \in g.squares}

\* two cells share an edge
SharesEdge(p, q) ==
    \/ p[1] = q[1] /\ Abs(p[2] - q[2]) = 1
    \/ p[2] = q[2] /\ Abs(p[1] - q[1]) = 1

\* the cells of S reached from the cells R over shared edges
RECURSIVE ReachedIn(_, _)
ReachedIn(S, R) ==
    LET T == R \cup {q \in S : \E p \in R : SharesEdge(p, q)}
    IN  IF T = R THEN R ELSE ReachedIn(S, T)

Connected4(S) == S # {} /\ ReachedIn(S, {CHOOSE rc \in S : TRUE}) = S

\* C19: the polygons of the grain raster partition its cells; each polygon
\* covers a 4-connected set of cells that all hold the value the polygon
\* is tagged with; and no two different polygons with the same value cover
\* cells that share an edge.
C19_MaximalRegions ==
    gpc = "done" =>
        /\ \A rc \in CellsOf(src_grain) :
              Cardinality({n \in DOMAIN result_grain :
                              rc \in CellsUnder(result_grain[n].geometry)}) = 1
        /\ \A n \in DOMAIN result_grain :
              /\ Connected4(CellsUnder(result_grain[n].geometry))
              /\ Cardinality(result_grain[n].geometry.squares)
                    = Cardinality(CellsUnder(result_grain[n].geometry))
              /\ \A rc \in CellsUnder(result_grain[n].geometry) :
                    At(src_grain, rc) = result_grain[n].data.value
        /\ \A n, m \in DOMAIN result_grain :
              (/\ n # m
               /\ \E p \in CellsUnder(result_grain[n].geometry),
                     q \in CellsUnder(result_grain[m].geometry) : SharesEdge(p, q))
                 => result_grain[n].data.value # result_grain[m].data.value

\* a raster of three rows with a polygon of four cells or more and two
\* polygons of one value whose cells touch at a corner only
C19_Witness ==
    /\ gpc = "done"
    /\ NRows(src_grain) = 3
    /\ \E n \in DOMAIN result_grain :
          Cardinality(CellsUnder(result_grain[n].geometry)) >= 4
    /\ \E n, m \in DOMAIN result_grain :
          /\ n # m
          /\ result_grain[n].data.value = result_grain[m].data.value
          /\ \E p \in CellsUnder(result_grain[n].geometry),
                q \in CellsUnder(result_grain[m].geometry) :
                Abs(p[1] - q[1]) = 1 /\ Abs(p[2] - q[2]) = 1
    /\ Len(result_grain) < Cardinality(CellsOf(src_grain))

-----------------------------------------------------------------------------
(***************************************************************************)
(* 05 sec-raster-to-points: the elev raster is given consecutive IDs, the  *)
(* IDs are vectorized, the polygons are replaced by their centroids and    *)
(* the values of the raster are extracted at the centroids.  A centroid    *)
(* is a pair of rationals.                                                 *)
(***************************************************************************)

ArangeIdsMutant(a) ==
    Array("int32", [i \in 1 .. NRows(a) |-> [j \in 1 .. NCols(a) |-> i - 1]])

\* np.arange(0, r.size).reshape(r.shape).astype(np.int32)
ArangeIds(a) ==
    Array("int32",
          [i \in 1 .. NRows(a) |-> [j \in 1 .. NCols(a) |->
              (i - 1) * NCols(a) + j - 1]])

PolygonCentroidMutant(g) ==
    <<RatOfInt(SetMin({sq.xmin : sq \in g.squares})),
      RatOfInt(SetMax({sq.ymax : sq \in g.squares}))>>

\* shapely.geometry.shape(g).centroid of a union of squares of one size
\* that do not overlap: the mean of the centres of the squares
PolygonCentroid(g) ==
    LET sqs == SortedSeq({k \in 1 .. Cardinality(g.squares) : TRUE})
        sq == CHOOSE f \in [1 .. Cardinality(g.squares) -> g.squares] :
                  \A k, l \in DOMAIN f : k # l => f[k] # f[l]
    IN  <<Frac(IntSumSeq([k \in DOMAIN sqs |-> sq[k].xmin + sq[k].xmax]),
               2 * Len(sqs)),
          Frac(IntSumSeq([k \in DOMAIN sqs |-> sq[k].ymin + sq[k].ymax]),
               2 * Len(sqs))>>

\* the row and column of the cell that holds a point
RowCol(t, p) ==
    <<((t.north * p[2][2] - p[2][1]) \div (p[2][2] * t.res)) + 1,
      ((p[1][1] - t.west * p[1][2]) \div (p[1][2] * t.res)) + 1>>

\* rasterstats.point_query(layer, a, affine=t, interpolate='nearest'): the
\* value of the cell that holds each point, None outside the raster
PointQuery(layer, a, t) ==
    [n \in DOMAIN layer |->
        IF RowCol(t, layer[n].geometry) \in CellsOf(a)
        THEN At(a, RowCol(t, layer[n].geometry)) ELSE NaN]

ElevRasters ==
    UNION {AllArrays("uint8", sh[1], sh[2], {1, 2}) :
              sh \in {<<1, 2>>, <<2, 2>>, <<2, 3>>, <<3, 3>>}}

InitPoints ==
    /\ r_elev \in ElevRasters
    /\ elev_transform \in Transforms
    /\ ids_elev = NotEvaluated
    /\ pol_elev = NotEvaluated
    /\ result_elev = NotEvaluated
    /\ ppc = "ids"
    /\ IdleBut({"points"})

\* ids = np.arange(0, r.size).reshape(r.shape).astype(np.int32)
IdsElev ==
    /\ ppc = "ids"
    /\ ids_elev' = ArangeIds(r_elev)
    /\ ppc' = "shapes"
    /\ UNCHANGED <<r_elev, elev_transform, pol_elev, result_elev, notPoints>>

\* shapes = rasterio.features.shapes(ids, transform=src_elev.transform)
\* pol = list(shapes)
ShapesIds ==
    /\ ppc = "shapes"
    /\ pol_elev' = Shapes(ids_elev, elev_transform)
    /\ ppc' = "centroid"
    /\ UNCHANGED <<r_elev, elev_transform, ids_elev, result_elev, notPoints>>

\* geom = [shapely.geometry.shape(i[0]).centroid for i in pol]
\* result = gpd.GeoDataFrame(geometry=geom)
CentroidsElev ==
    /\ ppc = "centroid"
    /\ result_elev' = [n \in DOMAIN pol_elev |->
                          Feature(PolygonCentroid(pol_elev[n][1]), <<>>)]
    /\ ppc' = "value"
    /\ UNCHANGED <<r_elev, elev_transform, ids_elev, pol_elev, notPoints>>

\* result['value'] = rasterstats.point_query(result, r, ...)
ValueElev ==
    /\ ppc = "value"
    /\ result_elev' = [n \in DOMAIN result_elev |->
                          Feature(result_elev[n].geometry,
                                  [value |-> PointQuery(result_elev, r_elev,
                                                        elev_transform)[n]])]
    /\ ppc' = "done"
    /\ UNCHANGED <<r_elev, elev_transform, ids_elev, pol_elev, notPoints>>

NextPoints ==
    \/ IdsElev
    \/ ShapesIds
    \/ CentroidsElev
    \/ ValueElev

SpecPoints == InitPoints /\ [][NextPoints]_vars

\* the features whose point is the centre of a cell
FeaturesOfCell(rc) ==
    {n \in DOMAIN result_elev :
        result_elev[n].geometry =
            <<RatOfInt(CellCentre(elev_transform, rc)[1]),
              RatOfInt(CellCentre(elev_transform, rc)[2])>>}

\* C20: the point layer of a raster of H rows and W columns has H*W
\* features, one at the centre of each cell, also where neighbouring cells
\* hold equal values, and the value of the feature of a cell is the value
\* the raster holds in that cell.
C20_OneFeaturePerCell ==
    ppc = "done" =>
        /\ Len(result_elev) = NRows(r_elev) * NCols(r_elev)
        /\ \A rc \in CellsOf(r_elev) :
              /\ Cardinality(FeaturesOfCell(rc)) = 1
              /\ \A n \in FeaturesOfCell(rc) :
                    result_elev[n].data.value = At(r_elev, rc)

\* a raster of three rows and three columns with equal values in cells
\* that share an edge, nine features, the first and the last with
\* different values
C20_Witness ==
    /\ ppc = "done"
    /\ NRows(r_elev) = 3
    /\ NCols(r_elev) = 3
    /\ At(r_elev, <<1, 1>>) = At(r_elev, <<1, 2>>)
    /\ At(r_elev, <<2, 2>>) = At(r_elev, <<3, 2>>)
    /\ Len(result_elev) = 9
    /\ result_elev[1].data.value = 1
    /\ result_elev[9].data.value = 2

-----------------------------------------------------------------------------
(***************************************************************************)
(* 05 sec-distance-to-nearest-geometry, as the script runs it: the IDs of  *)
(* the cells of r that hold a value, their shapes, the centroids pnt, the  *)
(* pairs of a centroid and its distance to the coastline, and the raster   *)
(* of the pairs.  The coastline is the boundary of a polygon, a set of     *)
(* segments; a distance is carried as the square it is the root of.        *)
(***************************************************************************)

\* gpd.GeoSeries(...).boundary: the segments of the ring of a polygon
Boundary(ring) == [type |-> "MultiLineString", segs |-> Edges(ring)]

Coastlines ==
    {Boundary(ring) : ring \in {<<<<0, 0>>, <<3, 0>>, <<3, 3>>, <<0, 3>>, <<0, 0>>>>,
                                <<<<-2, 1>>, <<6, 5>>, <<-2, 5>>, <<-2, 1>>>>}}

\* the distance whose square is q
Sqrt(q) == [square |-> q]

\* p.distance(line) for a point of rational coordinates: the least of the
\* distances to the segments, computed on coordinates scaled to integers
PointLineDistance(p, line) ==
    LET D == p[1][2] * p[2][2]
        P == <<p[1][1] * p[2][2], p[2][1] * p[1][2]>>
        least == RatMinSet({PointSegDistSq(P, <<e[1][1] * D, e[1][2] * D>>,
                                              <<e[2][1] * D, e[2][2] * D>>) :
                               e \in line.segs})
    IN  Sqrt(Frac(least[1], least[2] * D * D))

\* rasterize of (point, value) pairs: a pair burns the cell that holds its
\* point, a later pair replaces an earlier one
RECURSIVE BurnPoints(_, _, _, _)
BurnPoints(img, pairs, t, n) ==
    IF n > Len(pairs) THEN img
    ELSE BurnPoints(Array(img.dtype,
                          [i \in 1 .. NRows(img) |-> [j \in 1 .. NCols(img) |->
                              IF RowCol(t, pairs[n][1]) = <<i, j>>
                              THEN pairs[n][2] ELSE img.data[i][j]]]),
                    pairs, t, n + 1)

RasterizePoints(pairs, out_shape, t, fill) ==
    BurnPoints(Array("float64",
                     [i \in 1 .. out_shape[1] |-> [j \in 1 .. out_shape[2] |-> fill]]),
               pairs, t, 1)

InitDist ==
    /\ r_nz \in VecRasters
    /\ nz_transform \in Transforms
    /\ coastline \in Coastlines
    /\ ids_nz = NotEvaluated
    /\ pol_nz = NotEvaluated
    /\ pnt = NotEvaluated
    /\ distances = NotEvaluated
    /\ image_nz = NotEvaluated
    /\ dpc = "ids"
    /\ IdleBut({"dist"})

\* ids = np.arange(0, r.size).reshape(r.shape).astype(np.float32)
\* ids[np.isnan(r)] = np.nan
IdsNz ==
    /\ dpc = "ids"
    /\ ids_nz' = MaskNaN(ArangeLike(r_nz), r_nz)
    /\ dpc' = "shapes"
    /\ UNCHANGED <<r_nz, nz_transform, coastline, pol_nz, pnt, distances,
                   image_nz, notDist>>

\* shapes = rasterio.features.shapes(ids, transform=new_transform)
\* pol = list(shapes)
ShapesNz ==
    /\ dpc = "shapes"
    /\ pol_nz' = Shapes(ids_nz, nz_transform)
    /\ dpc' = "pnt"
    /\ UNCHANGED <<r_nz, nz_transform, coastline, ids_nz, pnt, distances,
                   image_nz, notDist>>

\* pnt = [shapely.geometry.shape(i[0]).centroid for i in pol]
PntNz ==
    /\ dpc = "pnt"
    /\ pnt' = [n \in DOMAIN pol_nz |-> PolygonCentroid(pol_nz[n][1])]
    /\ dpc' = "distances"
    /\ UNCHANGED <<r_nz, nz_transform, coastline, ids_nz, pol_nz, distances,
                   image_nz, notDist>>

\* distances = [(i, i.distance(coastline)) for i in pnt]
DistancesNz ==
    /\ dpc = "distances"
    /\ distances' = [n \in DOMAIN pnt |-> <<pnt[n], PointLineDistance(pnt[n], coastline)>>]
    /\ dpc' = "image"
    /\ UNCHANGED <<r_nz, nz_transform, coastline, ids_nz, pol_nz, pnt,
                   image_nz, notDist>>

\* image = rasterio.features.rasterize(distances, out_shape=ids.shape,
\* dtype=np.float_, transform=new_transform, fill=np.nan)
ImageNz ==
    /\ dpc = "image"
    /\ image_nz' = RasterizePoints(distances, ArrayShape(ids_nz), nz_transform, NaN)
    /\ dpc' = "done"
    /\ UNCHANGED <<r_nz, nz_transform, coastline, ids_nz, pol_nz, pnt,
                   distances, notDist>>

NextDist ==
    \/ IdsNz
    \/ ShapesNz
    \/ PntNz
    \/ DistancesNz
    \/ ImageNz

SpecDist == InitDist /\ [][NextDist]_vars

\* the centre of a cell as a pair of rationals
CentreOf(t, rc) == <<RatOfInt(CellCentre(t, rc)[1]), RatOfInt(CellCentre(t, rc)[2])>>

\* the points of pnt that lie in a cell
PntIn(rc) == {n \in DOMAIN pnt : RowCol(nz_transform, pnt[n]) = rc}

\* C21: once the centroids are made, a cell of r that holds a value has
\* exactly one point, at the centre of the cell, a cell of r that is NaN
\* has none, and no point lies outside the raster.
C21_OnePointPerDataCell ==
    dpc \in {"distances", "image", "done"} =>
        /\ \A rc \in CellsOf(r_nz) :
              IF At(r_nz, rc) = NaN
              THEN PntIn(rc) = {}
              ELSE /\ Cardinality(PntIn(rc)) = 1
                   /\ \A n \in PntIn(rc) : pnt[n] = CentreOf(nz_transform, rc)
        /\ \A n \in DOMAIN pnt : RowCol(nz_transform, pnt[n]) \in CellsOf(r_nz)

\* a raster of two rows with three cells that hold a value and a NaN cell
\* between them: three points, none in the NaN cell
C21_Witness ==
    /\ dpc = "distances"
    /\ NRows(r_nz) = 2
    /\ Len(pnt) = 3
    /\ \E rc \in CellsOf(r_nz) : At(r_nz, rc) = NaN /\ PntIn(rc) = {} /\ rc[2] = 2
    /\ \E rc \in CellsOf(r_nz) : At(r_nz, rc) # NaN /\ PntIn(rc) # {} /\ rc[2] = 3

\* the least squared distance of the centre of a cell and a segment of
\* the coastline
LeastSq(rc) ==
    RatMinSet({PointSegDistSq(CellCentre(nz_transform, rc), e[1], e[2]) :
                  e \in coastline.segs})

\* C25: the raster of distances has the shape of r; a cell of r that holds
\* a value holds the distance of its own centre to the nearest segment of
\* the coastline, and a cell of r that is NaN is NaN.
C25_DistanceField ==
    dpc = "done" =>
        /\ ArrayShape(image_nz) = ArrayShape(r_nz)
        /\ \A rc \in CellsOf(r_nz) :
              At(image_nz, rc) = IF At(r_nz, rc) = NaN THEN NaN
                                 ELSE Sqrt(LeastSq(rc))

\* a raster with a NaN cell, a cell on the coastline (distance 0), a cell
\* whose nearest point lies inside a segment at a distance that is not a
\* whole number, and two cells with different distances
C25_Witness ==
    /\ dpc = "done"
    /\ \E rc \in CellsOf(r_nz) : At(r_nz, rc) = NaN /\ At(image_nz, rc) = NaN
    /\ \E rc \in CellsOf(r_nz) :
          At(r_nz, rc) # NaN /\ At(image_nz, rc) = Sqrt(RatOfInt(0))
    /\ \E rc \in CellsOf(r_nz) :
          /\ At(r_nz, rc) # NaN
          /\ At(image_nz, rc) # NaN
          /\ At(image_nz, rc).square[2] > 1
    /\ \E p, q \in CellsOf(r_nz) :
          /\ At(r_nz, p) # NaN /\ At(r_nz, q) # NaN
          /\ At(image_nz, p) # At(image_nz, q)

-----------------------------------------------------------------------------
(***************************************************************************)
(* 03 the grid of rectangles: the loops over cols and rows that append     *)
(* shapely.Polygon([(x,y), (x+res,y), (x+res,y-res), (x,y-res)]), the      *)
(* four corners without the first repeated.  The rectangles are used as    *)
(* polygons by the rest of the script (grid.intersects, nz.overlay).       *)
(***************************************************************************)

Reverse(s) == [i \in DOMAIN s |-> s[Len(s) + 1 - i]]

ShapelyPolygonMutant(coords) == Polygon(coords)

\* shapely.Polygon(coords): a ring given open is closed with its first
\* coordinate
ShapelyPolygon(coords) ==
    IF coords[1] = coords[Len(coords)]
    THEN Polygon(coords)
    ELSE Polygon(Append(coords, coords[1]))

\* the coordinates the loop hands to shapely.Polygon for x, y
Corners03(x, y) == <<<<x, y>>, <<x + Res, y>>, <<x + Res, y - Res>>, <<x, y - Res>>>>

\* (xmin, ymin, xmax, ymax) of a layer
GridBounds ==
    {<<x, y, x + w, y + h>> : x \in -1 .. 1, y \in -1 .. 1, w \in {1, 3, 4}, h \in {1, 2, 5}}

InitCells ==
    /\ grid_bounds \in GridBounds
    /\ grid_cols = NotEvaluated
    /\ grid_rows = NotEvaluated
    /\ polygons = NotEvaluated
    /\ cpc2 = "dims"
    /\ IdleBut({"cells"})

\* cols = list(range(floor(xmin), ceil(xmax+res), res)); rows likewise;
\* rows.reverse(); polygons = []
GridDims ==
    /\ cpc2 = "dims"
    /\ grid_cols' = GridCols(<<grid_bounds[1], grid_bounds[3]>>)
    /\ grid_rows' = Reverse(GridCols(<<grid_bounds[2], grid_bounds[4]>>))
    /\ polygons' = <<>>
    /\ cpc2' = "loop"
    /\ UNCHANGED <<grid_bounds, notCells>>

\* for x in cols: for y in rows: polygons.append(shapely.Polygon([...]))
AppendPolygon ==
    /\ cpc2 = "loop"
    /\ Len(polygons) < Len(grid_cols) * Len(grid_rows)
    /\ polygons' =
          Append(polygons,
                 ShapelyPolygon(Corners03(grid_cols[(Len(polygons) \div Len(grid_rows)) + 1],
                                          grid_rows[(Len(polygons) % Len(grid_rows)) + 1])))
    /\ UNCHANGED <<grid_bounds, grid_cols, grid_rows, cpc2, notCells>>

\* grid = gpd.GeoDataFrame({'geometry': polygons}, crs=nz.crs)
GridFrame ==
    /\ cpc2 = "loop"
    /\ Len(polygons) = Len(grid_cols) * Len(grid_rows)
    /\ cpc2' = "done"
    /\ UNCHANGED <<grid_bounds, grid_cols, grid_rows, polygons, notCells>>

NextCells ==
    \/ GridDims
    \/ AppendPolygon
    \/ GridFrame

SpecCells == InitCells /\ [][NextCells]_vars

\* the coordinates handed over for the n-th rectangle
GivenCoords(n) ==
    Corners03(grid_cols[((n - 1) \div Len(grid_rows)) + 1],
              grid_rows[((n - 1) % Len(grid_rows)) + 1])

\* C22, as claimed: a ring whose first and last coordinates differ, such
\* as the four corners of a rectangle, is rejected and no polygon is made
\* of it.
C22_OpenRingRejected ==
    cpc2 = "done" =>
        \A n \in 1 .. Len(grid_cols) * Len(grid_rows) :
            GivenCoords(n)[1] # GivenCoords(n)[4]
               => ~\E k \in DOMAIN polygons :
                      /\ polygons[k].type = "Polygon"
                      /\ SubSeq(polygons[k].ring, 1, 4) = GivenCoords(n)

\* C22, as the script behaves: every rectangle of the loops is made, in
\* loop order, from four corners whose first and last differ, and its
\* ring is those four coordinates followed by the first of them.
C22_OpenRingClosed ==
    cpc2 = "done" =>
        /\ Len(polygons) = Len(grid_cols) * Len(grid_rows)
        /\ \A n \in DOMAIN polygons :
              /\ GivenCoords(n)[1] # GivenCoords(n)[4]
              /\ polygons[n].type = "Polygon"
              /\ polygons[n].ring = GivenCoords(n) \o <<GivenCoords(n)[1]>>
              /\ polygons[n].ring[1] = polygons[n].ring[Len(polygons[n].ring)]

\* a grid of three columns and two rows: six rectangles, each of five
\* coordinates
C22_Witness ==
    /\ cpc2 = "done"
    /\ Len(grid_cols) = 3
    /\ Len(grid_rows) = 2
    /\ Len(polygons) = 6
    /\ \A n \in DOMAIN polygons : Len(polygons[n].ring) = 5
    /\ grid_rows[1] > grid_rows[2]

-----------------------------------------------------------------------------
(***************************************************************************)
(* 03 sec-spatial-subsetting-raster: src_elev.sample(xy) returns a         *)
(* generator, list(...) draws its values.  A generator is the list of      *)
(* coordinates it was made for and the number of values drawn so far.      *)
(* elev.tif is 6 x 6 cells of side 0.5 with its corner at (-1.5, 1.5), so  *)
(* that (0.1, 0.1) holds 16 and (1.1, 1.1) holds 6; coordinates in tenths. *)
(***************************************************************************)

MaxCalls == 3

ElevTransform == Transform(-15, 15, 5)

\* the value of the cell of elev.tif that covers a coordinate
SampleAt(xy) ==
    At(Arange(6, 6), RowCol(ElevTransform, <<RatOfInt(xy[1]), RatOfInt(xy[2])>>))

\* src_elev.sample(xy): nothing is drawn yet
Sample(xy) == [xy |-> xy, drawn |-> 0]

StopIteration == [raised |-> "StopIteration"]

\* next(gen): the value and the generator after it, or StopIteration
GenNext(gen) ==
    IF gen.drawn < Len(gen.xy)
    THEN [value |-> SampleAt(gen.xy[gen.drawn + 1]),
          gen |-> [gen EXCEPT !.drawn = @ + 1]]
    ELSE StopIteration

\* list(gen): the values drawn until StopIteration
RECURSIVE List(_)
List(gen) ==
    IF GenNext(gen) = StopIteration THEN <<>>
    ELSE <<GenNext(gen).value>> \o List(GenNext(gen).gen)

ConsumedMutant(gen) == gen

\* the generator after list(gen)
RECURSIVE Consumed(_)
Consumed(gen) ==
    IF GenNext(gen) = StopIteration THEN gen ELSE Consumed(GenNext(gen).gen)

SampleCoords == {<<1, 1>>, <<11, 11>>, <<-15, 15>>, <<-6, -9>>}

SampleLists == UNION {[1 .. n -> SampleCoords] : n \in 1 .. 2}

InitSample ==
    /\ sample_gen = NotEvaluated
    /\ sample_values = NotEvaluated
    /\ sample_calls = 0
    /\ spc = "start"
    /\ IdleBut({"sample"})

\* src_elev.sample([(0.1, 0.1)])
SampleCall ==
    /\ sample_calls < MaxCalls
    /\ \E xy \in SampleLists : sample_gen' = Sample(xy)
    /\ sample_calls' = sample_calls + 1
    /\ spc' = "created"
    /\ UNCHANGED <<sample_values, notSample>>

\* list(src_elev.sample(...))
ListCall ==
    /\ spc = "created"
    /\ sample_values' = List(sample_gen)
    /\ sample_gen' = Consumed(sample_gen)
    /\ spc' = "listed"
    /\ UNCHANGED <<sample_calls, notSample>>

NextSample ==
    \/ SampleCall
    \/ ListCall

SpecSample == InitSample /\ [][NextSample]_vars

\* C23: the list made of a generator holds one value per coordinate asked
\* for, in their order, each the value of the cell that covers the
\* coordinate; the generator the list was made of gives nothing more; and
\* a generator just returned by sample still gives every value.
C23_SinglePass ==
    /\ spc = "listed" =>
          /\ Len(sample_values) = Len(sample_gen.xy)
          /\ \A k \in DOMAIN sample_values :
                sample_values[k] = SampleAt(sample_gen.xy[k])
          /\ GenNext(sample_gen) = StopIteration
          /\ List(sample_gen) = <<>>
    /\ spc = "created" =>
          /\ sample_gen.drawn = 0
          /\ Len(List(sample_gen)) = Len(sample_gen.xy)

\* the third call of the chapter: the list of (0.1, 0.1) and (1.1, 1.1) is
\* 16 and 6, and its generator is used up
C23_Witness ==
    /\ spc = "listed"
    /\ sample_calls = 3
    /\ sample_gen.xy = <<<<1, 1>>, <<11, 11>>>>
    /\ sample_values = <<16, 6>>
    /\ sample_gen.drawn = 2

-----------------------------------------------------------------------------
(***************************************************************************)
(* 03 boolean masks: masked_elev and elev2 are copies of elev, converted   *)
(* to float64, with NaN assigned where the mask holds.  Arrays live in a   *)
(* heap; a name refers to an array by its position in the heap, copy and   *)
(* astype make a new array, an indexed assignment writes into the array    *)
(* the name refers to.                                                     *)
(***************************************************************************)

\* a < c, cell by cell, for a float array
LessThan(a, c) ==
    Array("bool",
          [i \in 1 .. NRows(a) |-> [j \in 1 .. NCols(a) |->
              RatLess(a.data[i][j], RatOfInt(c))]])

MaskShapes == {<<1, 2>>, <<2, 2>>}

InitMask ==
    /\ \E sh \in MaskShapes :
          /\ src_elev03 \in AllArrays("uint8", sh[1], sh[2], {10, 20, 30})
          /\ mask03 \in AllArrays("bool", sh[1], sh[2], BOOLEAN)
    /\ heap03 = <<>>
    /\ elev_ref = 0
    /\ masked_elev_ref = 0
    /\ elev2_ref = 0
    /\ kpc = "read"
    /\ IdleBut({"mask"})

\* elev = src_elev.read(1)
ReadElev ==
    /\ kpc = "read"
    /\ heap03' = Append(heap03, src_elev03)
    /\ elev_ref' = Len(heap03) + 1
    /\ kpc' = "masked_copy"
    /\ UNCHANGED <<src_elev03, mask03, masked_elev_ref, elev2_ref, notMask>>

\* masked_elev = elev.copy()
MaskedCopy ==
    /\ kpc = "masked_copy"
    /\ heap03' = Append(heap03, heap03[elev_ref])
    /\ masked_elev_ref' = Len(heap03) + 1
    /\ kpc' = "masked_astype"
    /\ UNCHANGED <<src_elev03, mask03, elev_ref, elev2_ref, notMask>>

\* masked_elev = masked_elev.astype('float64')
MaskedAstype ==
    /\ kpc = "masked_astype"
    /\ heap03' = Append(heap03, AsTypeFloat(heap03[masked_elev_ref]))
    /\ masked_elev_ref' = Len(heap03) + 1
    /\ kpc' = "masked_assign"
    /\ UNCHANGED <<src_elev03, mask03, elev_ref, elev2_ref, notMask>>

\* masked_elev[mask] = np.nan
MaskedAssign ==
    /\ kpc = "masked_assign"
    /\ heap03' = [heap03 EXCEPT ![masked_elev_ref] = AssignNaN(@, mask03)]
    /\ kpc' = "elev2_copy"
    /\ UNCHANGED <<src_elev03, mask03, elev_ref, masked_elev_ref, elev2_ref, notMask>>

\* elev2 = elev.copy()
Elev2Copy ==
    /\ kpc = "elev2_copy"
    /\ heap03' = Append(heap03, heap03[elev_ref])
    /\ elev2_ref' = Len(heap03) + 1
    /\ kpc' = "elev2_astype"
    /\ UNCHANGED <<src_elev03, mask03, elev_ref, masked_elev_ref, notMask>>

\* elev2 = elev2.astype('float64')
Elev2Astype ==
    /\ kpc = "elev2_astype"
    /\ heap03' = Append(heap03, AsTypeFloat(heap03[elev2_ref]))
    /\ elev2_ref' = Len(heap03) + 1
    /\ kpc' = "elev2_assign"
    /\ UNCHANGED <<src_elev03, mask03, elev_ref, masked_elev_ref, notMask>>

\* elev2[elev2 < 20] = np.nan
Elev2Assign ==
    /\ kpc = "elev2_assign"
    /\ heap03' = [heap03 EXCEPT ![elev2_ref] = AssignNaN(@, LessThan(@, 20))]
    /\ kpc' = "done"
    /\ UNCHANGED <<src_elev03, mask03, elev_ref, masked_elev_ref, elev2_ref, notMask>>

NextMask ==
    \/ ReadElev
    \/ MaskedCopy
    \/ MaskedAstype
    \/ MaskedAssign
    \/ Elev2Copy
    \/ Elev2Astype
    \/ Elev2Assign

SpecMask == InitMask /\ [][NextMask]_vars

\* C24: masked_elev and elev2 are arrays of their own, of the shape of
\* elev; in masked_elev exactly the cells where mask holds are NaN, in
\* elev2 exactly the cells below 20, and every other cell holds the value
\* of elev; and from the moment it is read elev holds the values of the
\* file, whatever is assigned to the other two.
C24_MaskReturnsNewGrid ==
    /\ kpc # "read" => heap03[elev_ref] = src_elev03
    /\ kpc = "done" =>
          /\ Cardinality({elev_ref, masked_elev_ref, elev2_ref}) = 3
          /\ ArrayShape(heap03[masked_elev_ref]) = ArrayShape(src_elev03)
          /\ ArrayShape(heap03[elev2_ref]) = ArrayShape(src_elev03)
          /\ \A rc \in CellsOf(src_elev03) :
                /\ At(heap03[masked_elev_ref], rc) =
                      IF At(mask03, rc) THEN NaN ELSE RatOfInt(At(src_elev03, rc))
                /\ At(heap03[elev2_ref], rc) =
                      IF At(src_elev03, rc) < 20 THEN NaN
                      ELSE RatOfInt(At(src_elev03, rc))

\* a raster of four cells, some masked and some not, some below 20 and
\* one equal to 20, which elev2 keeps
C24_Witness ==
    /\ kpc = "done"
    /\ NRows(src_elev03) = 2
    /\ \E p, q \in CellsOf(src_elev03) : At(mask03, p) /\ ~At(mask03, q)
    /\ \E p, q \in CellsOf(src_elev03) :
          /\ At(src_elev03, p) = 10 /\ At(heap03[elev2_ref], p) = NaN
          /\ At(src_elev03, q) = 20 /\ At(heap03[elev2_ref], q) = RatOfInt(20)
    /\ heap03[elev_ref] = src_elev03

-----------------------------------------------------------------------------
(***************************************************************************)
(* 03 unary_union before a predicate: nz_height.intersects(                *)
(* canterbury_southland.unary_union), points against the union of          *)
(* polygons, and world.intersects(random_points.unary_union), polygons     *)
(* against the union of points.  The two regions are the polygons of       *)
(* poly2, which share an edge; the layer of points stands for nz_height    *)
(* in the first statement and for random_points in the second, the layer   *)
(* of polygons for canterbury_southland and for world.                     *)
(***************************************************************************)

\* the two polygons of poly2 dissolved: the shared edge is gone and
\* (10, 5) lies inside an edge
DissolvedPoly2 == Polygon(<<<<0, 0>>, <<0, 10>>, <<10, 10>>, <<10, 0>>, <<0, 0>>>>)

UnaryUnionMutant(geoms) == geoms[1]

\* layer.unary_union for a layer of points (the set of their coordinates)
\* and for a layer made of the polygons of poly2
UnaryUnion(geoms) ==
    IF \A i \in DOMAIN geoms : IsPuntal(geoms[i])
    THEN LET S == UNION {geoms[i].pts : i \in DOMAIN geoms}
         IN  IF Cardinality(S) = 1 THEN [type |-> "Point", pts |-> S]
             ELSE MultiPoint(S)
    ELSE IF Cardinality(Range(geoms)) = 1 THEN geoms[1]
    ELSE DissolvedPoly2

\* on the shared edge, inside either polygon, outside both, on the outer
\* boundary, on the shared corner
UnionPoints ==
    {Point(2, 1), Point(7, 1), Point(2, 8), Point(12, 5), Point(10, 8), Point(0, 0)}

InitUnion ==
    /\ nz_height \in UNION {[1 .. n -> UnionPoints] : n \in 1 .. MaxPoints}
    /\ canterbury_southland \in PolySeries
    /\ sel_height = NotEvaluated
    /\ world_random = NotEvaluated
    /\ upc = "sel"
    /\ IdleBut({"union"})

\* sel = nz_height.intersects(canterbury_southland.unary_union)
SelHeight ==
    /\ upc = "sel"
    /\ sel_height' = ManyToOne("intersects", nz_height, UnaryUnion(canterbury_southland))
    /\ upc' = "world_random"
    /\ UNCHANGED <<nz_height, canterbury_southland, world_random, notUnion>>

\* world_random = world[world.intersects(random_points.unary_union)]: the
\* selection, then the features it keeps
WorldRandom ==
    /\ upc = "world_random"
    /\ world_random' =
          LET sel == ManyToOne("intersects", canterbury_southland, UnaryUnion(nz_height))
          IN  [sel |-> sel,
               rows |-> SelectSeq([i \in DOMAIN sel |-> i], LAMBDA i : sel[i])]
    /\ upc' = "done"
    /\ UNCHANGED <<nz_height, canterbury_southland, sel_height, notUnion>>

NextUnion ==
    \/ SelHeight
    \/ WorldRandom

SpecUnion == InitUnion /\ [][NextUnion]_vars

\* C29: the selection against the union has one entry per geometry of the
\* layer tested, in its order, and the entry is TRUE exactly when the
\* geometry intersects at least one member of the layer that was united,
\* for points against the union of polygons and for polygons against the
\* union of points.
C29_UnionIsOr ==
    upc = "done" =>
        /\ DOMAIN sel_height = DOMAIN nz_height
        /\ \A i \in DOMAIN nz_height :
              sel_height[i] <=>
                 \E j \in DOMAIN canterbury_southland :
                    Intersects(nz_height[i], canterbury_southland[j])
        /\ DOMAIN world_random.sel = DOMAIN canterbury_southland
        /\ \A j \in DOMAIN canterbury_southland :
              world_random.sel[j] <=>
                 \E i \in DOMAIN nz_height :
                    Intersects(canterbury_southland[j], nz_height[i])

\* two regions and two points, one outside both regions and one inside
\* the second region only: the selections are FALSE, TRUE for the points
\* and FALSE, TRUE for the regions
C29_Witness ==
    /\ upc = "done"
    /\ Len(nz_height) = 2
    /\ Len(canterbury_southland) = 2
    /\ sel_height = <<FALSE, TRUE>>
    /\ world_random.sel = <<FALSE, TRUE>>
    /\ world_random.rows = <<2>>

=============================================================================
